---- MODULE Spec2Model ----
(***************************************************************************)
(* Baluster: access-validation core, credential store contracts and the    *)
(* TTL cache, modelled from the Go sources.                                *)
(*                                                                         *)
(* Time is counted in minutes.  Raw tokens, digests, application names and *)
(* organization ids are strings; ids produced by GenerateID are numbered   *)
(* in the order in which they are produced.                                *)
(***************************************************************************)
EXTENDS Integers, Sequences, FiniteSets, TLC

VARIABLES
    now,            \* time.Now() in minutes
    serviceKeys,    \* service_key items of the "service_keys" container
    auditHistory,   \* audit_history items of the "service_keys" container
    nextKey,        \* number of GenerateTokenValue / GenerateID draws so far
    rawOf,          \* history: ServiceKey.ID -> raw token of its creation response
    last,           \* the last request handled and what it returned
    items,          \* Cache.items: key -> CacheEntry, for the keys present
    mu,             \* Cache.mu: the writer holding it and the readers holding it
    pc,             \* per worker: where it is in its cache call
    call,           \* per worker: the cache call it is in and its locals
    ret,            \* per worker: what its last Get or GetAndDelete returned
    written,        \* history: per key, the entry of the last Set not removed since
    hits,           \* history: per key, GetAndDelete calls that found it since its last Set
    flow,           \* per worker: the OAuth request it is serving and its locals
    nextState,      \* number of GenerateState draws so far
    users,          \* items of the "users" container
    nextUser,       \* number of GenerateID draws for users so far
    issued,         \* history: state -> expiry it was issued with by GitHubOAuth
    passed,         \* history: state -> callbacks that got past its validation
    held,           \* per entity kind and organization: number of stored entities
    create,         \* per worker: the create request it is serving and its locals
    resp,           \* what the last request through a middleware came to
    members,        \* organization_member items: <<organization, user>>
    organizations,  \* organization items: organization -> its MemberIDs array
    applications,   \* "applications" container: the application items
    applicationHistory  \* "applications" container: the audit_history items, in order

storeVars == <<serviceKeys, auditHistory, nextKey, rawOf>>
cacheVars == <<items, mu, pc, call, ret, written, hits>>
oauthVars == <<flow, nextState, users, nextUser, issued, passed>>
limitVars == <<held, create>>
gateVars == <<resp, members, organizations>>
appVars == <<applications, applicationHistory>>
vars == <<now, serviceKeys, auditHistory, nextKey, rawOf, last,
          items, mu, pc, call, ret, written, hits,
          flow, nextState, users, nextUser, issued, passed,
          held, create, resp, members, organizations,
          applications, applicationHistory>>

----------------------------------------------------------------------------
(* Bounds *)

MaxTime == 2
MaxKeys == 1
MaxAudit == 2
MaxStates == 1
MaxStateTime == 11
Headroom == 1
MaxOrgs == 1
MaxDays == 3

----------------------------------------------------------------------------
(* Input domains *)

Orgs == {"orgA", "orgB"}
Users == {"u1"}
Names == {"svc-a"}
AppNames == {"mail_service", "Mail_Service"}

\* a nil *time.Time
NoExpiry == -1

\* the values GenerateTokenValue returns, in the order of the calls
TokenSeq == <<"tok1", "tok2", "tok3", "tok4", "tok5", "tok6">>

RawTokens == {TokenSeq[i] : i \in 1..Len(TokenSeq)}

\* sha256 + hex: an injective map whose image is disjoint from the raw tokens
HashToken(tokenValue) ==
    CASE tokenValue = "tok1" -> "sha256(tok1)"
      [] tokenValue = "tok2" -> "sha256(tok2)"
      [] tokenValue = "tok3" -> "sha256(tok3)"
      [] tokenValue = "tok4" -> "sha256(tok4)"
      [] tokenValue = "tok5" -> "sha256(tok5)"
      [] tokenValue = "tok6" -> "sha256(tok6)"
      [] tokenValue = "" -> "sha256()"
      [] tokenValue = "sha256(tok1)" -> "sha256(sha256(tok1))"
      [] tokenValue = "sha256(tok2)" -> "sha256(sha256(tok2))"
      [] OTHER -> "sha256(other)"

\* tokens a caller of ValidateAccess may present: the ones issued within the
\* bound and one that is never issued
PresentedTokens == {TokenSeq[i] : i \in 1..(MaxKeys + 1)}

ApplicationAccess(name, perms) ==
    [ApplicationID |-> name, ApplicationName |-> name, Permissions |-> perms]

\* the grant lists requests carry
GrantLists ==
    { <<>>,
      <<ApplicationAccess("Mail_Service", <<"admin">>),
        ApplicationAccess("mail_service", <<"write", "read", "read">>),
        ApplicationAccess("mail_service", <<"read">>)>> }

\* the expires_at values requests carry: none, or minute 1
Expiries == {NoExpiry, 1}

----------------------------------------------------------------------------
(* types.ServiceKey *)

IsExpired_Inverted(t, at) ==
    IF t.ExpiresAt = NoExpiry THEN FALSE ELSE t.ExpiresAt > at

IsExpired(t, at) ==
    IF t.ExpiresAt = NoExpiry THEN FALSE ELSE t.ExpiresAt < at

\* index of the first grant whose name equals applicationName, 0 for nil
RECURSIVE FirstMatch(_, _, _)
FirstMatch(apps, applicationName, i) ==
    IF i > Len(apps) THEN 0
    ELSE IF apps[i].ApplicationName = applicationName THEN i
    ELSE FirstMatch(apps, applicationName, i + 1)

\* strings.ToLower on the application names in use
ToLower(name) == IF name = "Mail_Service" THEN "mail_service" ELSE name

RECURSIVE FirstMatchFold(_, _, _)
FirstMatchFold(apps, applicationName, i) ==
    IF i > Len(apps) THEN 0
    ELSE IF ToLower(apps[i].ApplicationName) = ToLower(applicationName) THEN i
    ELSE FirstMatchFold(apps, applicationName, i + 1)

HasAccessToApplication_Fold(t, applicationName) ==
    FirstMatchFold(t.Applications, applicationName, 1)

HasAccessToApplication(t, applicationName) ==
    FirstMatch(t.Applications, applicationName, 1)

----------------------------------------------------------------------------
(* storage.ServiceKeyRepository over the "service_keys" container.  Items   *)
(* are partitioned by organization_id; service keys and their audit        *)
(* records share the partition and differ in entity_type.                  *)

NoKey == [ID |-> 0, OrganizationID |-> "", Name |-> "", TokenValue |-> "",
          Applications |-> <<>>, ExpiresAt |-> NoExpiry,
          CreatedByUserID |-> ""]

AuditRecord(token, action, userID) ==
    [EntityID |-> token.ID, OrganizationID |-> token.OrganizationID,
     Action |-> action, CreatedByUserID |-> userID]

ServiceKeyRepository_Create_Plain(keys, audits, token, userID) ==
    [keys |-> keys \cup {token},
     audits |-> Append(audits, AuditRecord(token, "created", userID)),
     token |-> token]

\* Create hashes the token value in place and writes key and audit in one batch
ServiceKeyRepository_Create(keys, audits, token, userID) ==
    LET stored == [token EXCEPT !.TokenValue = HashToken(token.TokenValue)]
    IN [keys |-> keys \cup {stored},
        audits |-> Append(audits, AuditRecord(stored, "created", userID)),
        token |-> stored]

ServiceKeyRepository_Get_AnyPartition(keys, organizationID, id) ==
    LET hit == {k \in keys : k.ID = id}
    IN IF hit = {} THEN NoKey ELSE CHOOSE k \in hit : TRUE

\* ReadItem(partition organizationID, id); nil is NoKey
ServiceKeyRepository_Get(keys, organizationID, id) ==
    LET hit == {k \in keys : k.OrganizationID = organizationID /\ k.ID = id}
    IN IF hit = {} THEN NoKey ELSE CHOOSE k \in hit : TRUE

FindByTokenValueInOrg_AnyOrg(keys, organizationID, tokenValue) ==
    LET hit == {k \in keys : k.TokenValue = HashToken(tokenValue)}
    IN IF hit = {} THEN NoKey ELSE CHOOSE k \in hit : TRUE

\* the query of FindByTokenValueInOrg, run in the partition organizationID
FindByTokenValueInOrg(keys, organizationID, tokenValue) ==
    LET hashed == HashToken(tokenValue)
        hit == {k \in keys : /\ k.OrganizationID = organizationID
                              /\ k.TokenValue = hashed}
    IN IF hit = {} THEN NoKey ELSE CHOOSE k \in hit : TRUE

\* the cross-partition query of FindByTokenValue
FindByTokenValue(keys, tokenValue) ==
    LET hashed == HashToken(tokenValue)
        hit == {k \in keys : k.TokenValue = hashed}
    IN IF hit = {} THEN NoKey ELSE CHOOSE k \in hit : TRUE

CountByOrganization(keys, organizationID) ==
    Cardinality({k \in keys : k.OrganizationID = organizationID})

ListByOrganization(keys, organizationID) ==
    {k \in keys : k.OrganizationID = organizationID}

ServiceKeyRepository_Update_Rehash(keys, audits, token, userID) ==
    LET stored == [token EXCEPT !.TokenValue = HashToken(token.TokenValue)]
    IN [keys |-> {k \in keys : ~(k.OrganizationID = token.OrganizationID
                                   /\ k.ID = token.ID)} \cup {stored},
        audits |-> Append(audits, AuditRecord(stored, "updated", userID))]

\* ReplaceItem(token.ID) and the audit record in one batch
ServiceKeyRepository_Update(keys, audits, token, userID) ==
    [keys |-> {k \in keys : ~(k.OrganizationID = token.OrganizationID
                                /\ k.ID = token.ID)} \cup {token},
     audits |-> Append(audits, AuditRecord(token, "updated", userID))]

\* DeleteItem(token.ID) and the audit record in one batch
ServiceKeyRepository_Delete(keys, audits, token, userID) ==
    [keys |-> {k \in keys : ~(k.OrganizationID = token.OrganizationID
                                /\ k.ID = token.ID)},
     audits |-> Append(audits, AuditRecord(token, "deleted", userID))]

----------------------------------------------------------------------------
(* core.ValidateAccess *)

ValidateAccessInput(token, applicationName, organizationID) ==
    [Token |-> token, ApplicationName |-> applicationName,
     OrganizationID |-> organizationID]

\* &ValidateAccessOutput{Valid: false}, nil
Denied(calls) ==
    [Valid |-> FALSE, Permissions |-> <<>>, Err |-> "", calls |-> calls]

\* ValidateAccess reporting why it denies
ValidateAccess_Telling(keys, at, input, lookupFails) ==
    IF input.OrganizationID = "" THEN Denied(<<>>)
    ELSE
      LET calls == <<[fn |-> "FindByTokenValueInOrg",
                      organizationID |-> input.OrganizationID,
                      tokenValue |-> input.Token]>>
          serviceKey == FindByTokenValueInOrg(keys, input.OrganizationID, input.Token)
      IN IF lookupFails THEN [Denied(calls) EXCEPT !.Err = "internal error"]
         ELSE IF serviceKey = NoKey THEN [Denied(calls) EXCEPT !.Err = "token not found"]
         ELSE IF IsExpired(serviceKey, at) THEN [Denied(calls) EXCEPT !.Err = "token expired"]
         ELSE LET access == HasAccessToApplication(serviceKey, input.ApplicationName)
              IN IF access = 0 THEN Denied(calls)
                 ELSE [Valid |-> TRUE,
                       Permissions |-> serviceKey.Applications[access].Permissions,
                       Err |-> "", calls |-> calls]

\* ValidateAccess falling back to the lookup by token alone
ValidateAccess_Fallback(keys, at, input, lookupFails) ==
    LET calls == IF input.OrganizationID = ""
                 THEN <<[fn |-> "FindByTokenValue", organizationID |-> "",
                         tokenValue |-> input.Token]>>
                 ELSE <<[fn |-> "FindByTokenValueInOrg",
                         organizationID |-> input.OrganizationID,
                         tokenValue |-> input.Token]>>
        serviceKey == IF input.OrganizationID = ""
                      THEN FindByTokenValue(keys, input.Token)
                      ELSE FindByTokenValueInOrg(keys, input.OrganizationID, input.Token)
    IN IF lookupFails \/ serviceKey = NoKey THEN Denied(calls)
       ELSE IF IsExpired(serviceKey, at) THEN Denied(calls)
       ELSE LET access == HasAccessToApplication(serviceKey, input.ApplicationName)
            IN IF access = 0 THEN Denied(calls)
               ELSE [Valid |-> TRUE,
                     Permissions |-> serviceKey.Applications[access].Permissions,
                     Err |-> "", calls |-> calls]

\* the output, the error and the repository calls made; lookupFails is the
\* outcome of the store query (a transport error, a timeout)
ValidateAccess(keys, at, input, lookupFails) ==
    IF input.OrganizationID = "" THEN Denied(<<>>)
    ELSE
      LET calls == <<[fn |-> "FindByTokenValueInOrg",
                      organizationID |-> input.OrganizationID,
                      tokenValue |-> input.Token]>>
          serviceKey == FindByTokenValueInOrg(keys, input.OrganizationID, input.Token)
      IN IF lookupFails \/ serviceKey = NoKey THEN Denied(calls)
         ELSE IF IsExpired(serviceKey, at) THEN Denied(calls)
         ELSE LET access == HasAccessToApplication(serviceKey, input.ApplicationName)
              IN IF access = 0 THEN Denied(calls)
                 ELSE [Valid |-> TRUE,
                       Permissions |-> serviceKey.Applications[access].Permissions,
                       Err |-> "", calls |-> calls]

----------------------------------------------------------------------------
(* The last request and its response.  keys holds the service keys of the   *)
(* response body, token_value the body's top-level token_value, calls the  *)
(* repository calls ValidateAccess made and lookupFailed whether its store *)
(* query ended in an error.                                                *)

NoRequest ==
    [op |-> "none", org |-> "", id |-> 0, token |-> "", app |-> "",
     status |-> 0, valid |-> FALSE, perms |-> <<>>, err |-> "",
     keys |-> {}, token_value |-> "", calls |-> <<>>, lookupFailed |-> FALSE]

\* what the handlers do to a key before writing it to a response
ClearTokenValue(k) == [k EXCEPT !.TokenValue = ""]

----------------------------------------------------------------------------
(* Admin handlers for service keys (REST handler, core function and         *)
(* repository call together).  The request context carries the user and    *)
(* the organization the middleware attached.                               *)

ServiceKeyLimit == 50

NameInputs == Names \cup {""}

Tick ==
    /\ now < MaxTime
    /\ now' = now + 1
    /\ last' = [NoRequest EXCEPT !.op = "Tick"]
    /\ UNCHANGED <<serviceKeys, auditHistory, nextKey, rawOf>>
    /\ UNCHANGED cacheVars
    /\ UNCHANGED oauthVars
    /\ UNCHANGED limitVars
    /\ UNCHANGED gateVars
    /\ UNCHANGED appVars

CreateServiceKey(org, user, name, apps, exp, fail) ==
    /\ nextKey < MaxKeys
    /\ Len(auditHistory) < MaxAudit
    /\ LET req == [NoRequest EXCEPT !.op = "CreateServiceKey", !.org = org]
           count == CountByOrganization(serviceKeys, org)
           tokenValue == TokenSeq[nextKey + 1]
           serviceKey == [ID |-> nextKey + 1, OrganizationID |-> org,
                          Name |-> name, TokenValue |-> tokenValue,
                          Applications |-> apps, ExpiresAt |-> exp,
                          CreatedByUserID |-> user]
           done == ServiceKeyRepository_Create(serviceKeys, auditHistory,
                                               serviceKey, user)
       IN IF name = "" THEN
            /\ last' = [req EXCEPT !.status = 400]
            /\ UNCHANGED <<serviceKeys, auditHistory, nextKey, rawOf>>
          ELSE IF fail = "count" THEN
            /\ last' = [req EXCEPT !.status = 500]
            /\ UNCHANGED <<serviceKeys, auditHistory, nextKey, rawOf>>
          ELSE IF count >= ServiceKeyLimit THEN
            /\ last' = [req EXCEPT !.status = 403]
            /\ UNCHANGED <<serviceKeys, auditHistory, nextKey, rawOf>>
          ELSE IF fail = "write" THEN
            /\ last' = [req EXCEPT !.status = 500]
            /\ nextKey' = nextKey + 1
            /\ UNCHANGED <<serviceKeys, auditHistory, rawOf>>
          ELSE
            /\ serviceKeys' = done.keys
            /\ auditHistory' = done.audits
            /\ nextKey' = nextKey + 1
            /\ rawOf' = [rawOf EXCEPT ![serviceKey.ID] = tokenValue]
            /\ last' = [req EXCEPT !.status = 201, !.id = serviceKey.ID,
                                   !.keys = {ClearTokenValue(done.token)},
                                   !.token_value = tokenValue]
    /\ UNCHANGED now
    /\ UNCHANGED cacheVars
    /\ UNCHANGED oauthVars
    /\ UNCHANGED limitVars
    /\ UNCHANGED gateVars
    /\ UNCHANGED appVars

GetServiceKey(org, id, fail) ==
    /\ LET req == [NoRequest EXCEPT !.op = "GetServiceKey", !.org = org, !.id = id]
           serviceKey == ServiceKeyRepository_Get(serviceKeys, org, id)
       IN IF fail = "read" \/ serviceKey = NoKey THEN
            last' = [req EXCEPT !.status = 500]
          ELSE
            last' = [req EXCEPT !.status = 200,
                                !.keys = {ClearTokenValue(serviceKey)}]
    /\ UNCHANGED <<now, serviceKeys, auditHistory, nextKey, rawOf>>
    /\ UNCHANGED cacheVars
    /\ UNCHANGED oauthVars
    /\ UNCHANGED limitVars
    /\ UNCHANGED gateVars
    /\ UNCHANGED appVars

ListServiceKeys(org, fail) ==
    /\ LET req == [NoRequest EXCEPT !.op = "ListServiceKeys", !.org = org]
           found == ListByOrganization(serviceKeys, org)
       IN IF fail = "read" THEN
            last' = [req EXCEPT !.status = 500]
          ELSE
            last' = [req EXCEPT !.status = 200,
                                !.keys = {ClearTokenValue(k) : k \in found}]
    /\ UNCHANGED <<now, serviceKeys, auditHistory, nextKey, rawOf>>
    /\ UNCHANGED cacheVars
    /\ UNCHANGED oauthVars
    /\ UNCHANGED limitVars
    /\ UNCHANGED gateVars
    /\ UNCHANGED appVars

AdminUpdateServiceKey_KeepGrants(serviceKey, name, apps, exp) ==
    [serviceKey EXCEPT
       !.Name = name,
       !.Applications = IF apps = <<>> THEN @ ELSE apps,
       !.ExpiresAt = IF exp # NoExpiry THEN exp ELSE @]

\* what admin.UpdateServiceKey does to the key it read before it hands it
\* to the repository
AdminUpdateServiceKey(serviceKey, name, apps, exp) ==
    [serviceKey EXCEPT
       !.Name = name,
       !.Applications = apps,
       !.ExpiresAt = IF exp # NoExpiry THEN exp ELSE @]

UpdateServiceKey(org, user, id, name, apps, exp, fail) ==
    /\ Len(auditHistory) < MaxAudit
    /\ LET req == [NoRequest EXCEPT !.op = "UpdateServiceKey", !.org = org, !.id = id]
           serviceKey == ServiceKeyRepository_Get(serviceKeys, org, id)
           updated == AdminUpdateServiceKey(serviceKey, name, apps, exp)
           done == ServiceKeyRepository_Update(serviceKeys, auditHistory,
                                               updated, user)
       IN IF fail = "read" \/ serviceKey = NoKey \/ fail = "write" THEN
            /\ last' = [req EXCEPT !.status = 500]
            /\ UNCHANGED <<serviceKeys, auditHistory>>
          ELSE
            /\ serviceKeys' = done.keys
            /\ auditHistory' = done.audits
            /\ last' = [req EXCEPT !.status = 200,
                                   !.keys = {ClearTokenValue(updated)}]
    /\ UNCHANGED <<now, nextKey, rawOf>>
    /\ UNCHANGED cacheVars
    /\ UNCHANGED oauthVars
    /\ UNCHANGED limitVars
    /\ UNCHANGED gateVars
    /\ UNCHANGED appVars

DeleteServiceKey(org, user, id, fail) ==
    /\ Len(auditHistory) < MaxAudit
    /\ LET req == [NoRequest EXCEPT !.op = "DeleteServiceKey", !.org = org, !.id = id]
           serviceKey == ServiceKeyRepository_Get(serviceKeys, org, id)
           done == ServiceKeyRepository_Delete(serviceKeys, auditHistory,
                                               serviceKey, user)
       IN IF fail = "read" \/ serviceKey = NoKey \/ fail = "write" THEN
            /\ last' = [req EXCEPT !.status = 500]
            /\ UNCHANGED <<serviceKeys, auditHistory>>
          ELSE
            /\ serviceKeys' = done.keys
            /\ auditHistory' = done.audits
            /\ last' = [req EXCEPT !.status = 204]
    /\ UNCHANGED <<now, nextKey, rawOf>>
    /\ UNCHANGED cacheVars
    /\ UNCHANGED oauthVars
    /\ UNCHANGED limitVars
    /\ UNCHANGED gateVars
    /\ UNCHANGED appVars

\* ValidateAccess leaving an audit record of the validated key
ValidateAccessCall_Audited(token, app, org, lookupFails) ==
    /\ LET out == ValidateAccess(serviceKeys, now,
                                 ValidateAccessInput(token, app, org), lookupFails)
           serviceKey == FindByTokenValueInOrg(serviceKeys, org, token)
       IN /\ last' = [NoRequest EXCEPT !.op = "ValidateAccess", !.org = org,
                                       !.token = token, !.app = app,
                                       !.valid = out.Valid, !.perms = out.Permissions,
                                       !.err = out.Err, !.calls = out.calls,
                                       !.lookupFailed = lookupFails /\ out.calls # <<>>]
          /\ auditHistory' = IF out.Valid /\ Len(auditHistory) < MaxAudit
                             THEN Append(auditHistory, AuditRecord(serviceKey, "validated", ""))
                             ELSE auditHistory
    /\ UNCHANGED <<now, serviceKeys, nextKey, rawOf>>
    /\ UNCHANGED cacheVars
    /\ UNCHANGED oauthVars
    /\ UNCHANGED limitVars
    /\ UNCHANGED gateVars
    /\ UNCHANGED appVars

\* a call of core.ValidateAccess, as the REST and gRPC handlers make it
ValidateAccessCall(token, app, org, lookupFails) ==
    /\ LET out == ValidateAccess(serviceKeys, now,
                                 ValidateAccessInput(token, app, org), lookupFails)
       IN last' = [NoRequest EXCEPT !.op = "ValidateAccess", !.org = org,
                                    !.token = token, !.app = app,
                                    !.valid = out.Valid, !.perms = out.Permissions,
                                    !.err = out.Err, !.calls = out.calls,
                                    !.lookupFailed = lookupFails /\ out.calls # <<>>]
    /\ UNCHANGED <<now, serviceKeys, auditHistory, nextKey, rawOf>>
    /\ UNCHANGED cacheVars
    /\ UNCHANGED oauthVars
    /\ UNCHANGED limitVars
    /\ UNCHANGED gateVars
    /\ UNCHANGED appVars

ValidateAccessRequest_Validate_TokenOnly(token, applicationName) ==
    IF token = "" THEN "token is required" ELSE ""

\* ValidateAccessRequest.Validate, run by httputil.Decode; "" is nil
ValidateAccessRequest_Validate(token, applicationName) ==
    IF token = "" THEN "token is required"
    ELSE IF applicationName = "" THEN "application_name is required"
    ELSE ""

\* the REST handler of POST /api/v1/access, for a request the API-key
\* middleware handed on; org is the x-org-id header
HandleValidateAccess(token, app, org, lookupFails) ==
    /\ LET req == [NoRequest EXCEPT !.op = "POST /access", !.org = org,
                                    !.token = token, !.app = app]
           out == ValidateAccess(serviceKeys, now,
                                 ValidateAccessInput(token, app, org), lookupFails)
       IN last' = IF org = "" THEN [req EXCEPT !.status = 400]
                  ELSE IF ValidateAccessRequest_Validate(token, app) # ""
                  THEN [req EXCEPT !.status = 400]
                  ELSE [req EXCEPT !.status = IF out.Err # "" THEN 500 ELSE 200,
                                   !.valid = out.Valid, !.perms = out.Permissions,
                                   !.err = out.Err, !.calls = out.calls,
                                   !.lookupFailed = lookupFails /\ out.calls # <<>>]
    /\ UNCHANGED <<now, serviceKeys, auditHistory, nextKey, rawOf>>
    /\ UNCHANGED cacheVars
    /\ UNCHANGED oauthVars
    /\ UNCHANGED limitVars
    /\ UNCHANGED gateVars
    /\ UNCHANGED appVars

----------------------------------------------------------------------------
(* auth.Cache[bool]: a map guarded by a sync.RWMutex.  A call takes the     *)
(* lock, runs its body and releases the lock on return; the steps between  *)
(* are the points at which other goroutines may run.                       *)

Workers == {"w1", "w2"}
NoWorker == "none"

\* cache keys as character sequences
CacheKeys == { <<"a", ":", "u">>, <<"a", "b", ":", "u">> }
Prefixes == { <<"a", ":">>, <<"a">>, <<"a", "b", ":", "u">> }
CacheValues == BOOLEAN

\* the values GenerateState returns, in the order of the calls
StateSeq == << <<"s", "1">>, <<"s", "2">>, <<"s", "3">> >>
\* a state parameter no GenerateState call returned
Forged == <<"s", "x">>
States == {StateSeq[i] : i \in 1..Len(StateSeq)} \cup {Forged}

Keys == CacheKeys \cup States
\* the expiry instants and durations callers pass
ExpiryInstants == {1}
TTLs == {1}

CacheEntry(value, expiresAt) == [Value |-> value, ExpiresAt |-> expiresAt]
NoEntry == [Value |-> FALSE, ExpiresAt |-> NoExpiry]

\* c.items[key] = entry
Store(its, key, entry) ==
    [k \in DOMAIN its \cup {key} |-> IF k = key THEN entry ELSE its[k]]

Remove_Keep(its, key) == its

\* delete(c.items, key)
Remove(its, key) == [k \in DOMAIN its \ {key} |-> its[k]]

HasPrefix_FirstByte(key, prefix) == key[1] = prefix[1]

\* len(key) >= len(prefix) && key[:len(prefix)] == prefix
HasPrefix(key, prefix) ==
    Len(key) >= Len(prefix) /\ SubSeq(key, 1, Len(prefix)) = prefix

Expired_Never(entry, at) == FALSE

\* time.Now().After(entry.ExpiresAt)
Expired(entry, at) == at > entry.ExpiresAt

\* the body of Get: (value, found)
CacheGet(its, key, at) ==
    IF key \notin DOMAIN its THEN [value |-> FALSE, found |-> FALSE]
    ELSE IF Expired(its[key], at) THEN [value |-> FALSE, found |-> FALSE]
    ELSE [value |-> its[key].Value, found |-> TRUE]

\* the body of InvalidatePrefix
CacheInvalidatePrefix(its, prefix) ==
    [k \in {x \in DOMAIN its : ~HasPrefix(x, prefix)} |-> its[k]]

LockKind_AllRead(fn) == "RLock"

\* c.mu.RLock() in Get, c.mu.Lock() in every other method
LockKind(fn) == IF fn = "Get" THEN "RLock" ELSE "Lock"

CanAcquire(w, kind) ==
    IF kind = "RLock" THEN mu.writer = NoWorker
    ELSE mu.writer = NoWorker /\ mu.readers = {}

Acquired(w, kind) ==
    IF kind = "RLock" THEN [mu EXCEPT !.readers = @ \cup {w}]
    ELSE [mu EXCEPT !.writer = w]

\* the deferred Unlock / RUnlock
Released(w) ==
    [writer |-> IF mu.writer = w THEN NoWorker ELSE mu.writer,
     readers |-> mu.readers \ {w}]

NoCall == [fn |-> "none", key |-> <<>>, value |-> FALSE, expiresAt |-> 0,
           found |-> FALSE]
NoReturn == [fn |-> "none", key |-> <<>>, value |-> FALSE, found |-> FALSE]

\* a goroutine enters a cache method
Enter(w, fn, key, value, expiresAt) ==
    /\ pc[w] = "idle"
    /\ pc' = [pc EXCEPT ![w] = "lock"]
    /\ call' = [call EXCEPT ![w] = [fn |-> fn, key |-> key, value |-> value,
                                    expiresAt |-> expiresAt, found |-> FALSE]]
    /\ ret' = [ret EXCEPT ![w] = NoReturn]
    /\ UNCHANGED <<items, mu, written, hits>>

\* what a call made directly on the cache leaves alone
CallFrame ==
    /\ UNCHANGED <<now, last>>
    /\ UNCHANGED storeVars
    /\ UNCHANGED oauthVars
    /\ UNCHANGED limitVars
    /\ UNCHANGED gateVars
    /\ UNCHANGED appVars

CallGet(w, key) ==
    /\ Enter(w, "Get", key, FALSE, 0)
    /\ CallFrame

CallSet(w, key, value, expiresAt) ==
    /\ Enter(w, "Set", key, value, expiresAt)
    /\ CallFrame

\* SetWithTTL: c.Set(key, value, time.Now().Add(ttl))
CallSetWithTTL(w, key, value, ttl) ==
    /\ Enter(w, "Set", key, value, now + ttl)
    /\ CallFrame

CallDelete(w, key) ==
    /\ Enter(w, "Delete", key, FALSE, 0)
    /\ CallFrame

CallGetAndDelete(w, key) ==
    /\ Enter(w, "GetAndDelete", key, FALSE, 0)
    /\ CallFrame

CallInvalidatePrefix(w, prefix) ==
    /\ Enter(w, "InvalidatePrefix", prefix, FALSE, 0)
    /\ CallFrame

CallClear(w) ==
    /\ Enter(w, "Clear", <<>>, FALSE, 0)
    /\ CallFrame

\* c.mu.Lock() or c.mu.RLock() returns
Acquire(w) ==
    /\ pc[w] = "lock"
    /\ CanAcquire(w, LockKind(call[w].fn))
    /\ mu' = Acquired(w, LockKind(call[w].fn))
    /\ pc' = [pc EXCEPT ![w] = "body"]
    /\ UNCHANGED <<now, last, items, call, ret, written, hits>>
    /\ UNCHANGED storeVars
    /\ UNCHANGED oauthVars
    /\ UNCHANGED limitVars
    /\ UNCHANGED gateVars
    /\ UNCHANGED appVars

\* what a method does on return: release the lock, hand back (value, found);
\* ret keeps the calls whose outcome is observed
Return(w, value, found) ==
    /\ mu' = Released(w)
    /\ pc' = [pc EXCEPT ![w] = "idle"]
    /\ call' = [call EXCEPT ![w] = NoCall]
    /\ ret' = [ret EXCEPT ![w] =
                 IF call[w].fn \in {"Get", "GetAndDelete", "InvalidatePrefix"}
                 THEN [fn |-> call[w].fn, key |-> call[w].key,
                       value |-> value, found |-> found]
                 ELSE NoReturn]

GetBody(w) ==
    /\ pc[w] = "body" /\ call[w].fn = "Get"
    /\ LET r == CacheGet(items, call[w].key, now)
       IN Return(w, r.value, r.found)
    /\ UNCHANGED <<now, last, items, written, hits>>
    /\ UNCHANGED storeVars
    /\ UNCHANGED oauthVars
    /\ UNCHANGED limitVars
    /\ UNCHANGED gateVars
    /\ UNCHANGED appVars

SetBody(w) ==
    /\ pc[w] = "body" /\ call[w].fn = "Set"
    /\ items' = Store(items, call[w].key,
                      CacheEntry(call[w].value, call[w].expiresAt))
    /\ written' = [written EXCEPT ![call[w].key] =
                     CacheEntry(call[w].value, call[w].expiresAt)]
    /\ hits' = [hits EXCEPT ![call[w].key] = 0]
    /\ Return(w, FALSE, FALSE)
    /\ UNCHANGED <<now, last>>
    /\ UNCHANGED storeVars
    /\ UNCHANGED oauthVars
    /\ UNCHANGED limitVars
    /\ UNCHANGED gateVars
    /\ UNCHANGED appVars

DeleteBody(w) ==
    /\ pc[w] = "body" /\ call[w].fn = "Delete"
    /\ items' = Remove(items, call[w].key)
    /\ written' = [written EXCEPT ![call[w].key] = NoEntry]
    /\ Return(w, FALSE, FALSE)
    /\ UNCHANGED <<now, last, hits>>
    /\ UNCHANGED storeVars
    /\ UNCHANGED oauthVars
    /\ UNCHANGED limitVars
    /\ UNCHANGED gateVars
    /\ UNCHANGED appVars

\* entry, exists := c.items[key] and the expiry test of GetAndDelete
GetAndDeleteLookup(w) ==
    /\ pc[w] = "body" /\ call[w].fn = "GetAndDelete"
    /\ LET r == CacheGet(items, call[w].key, now)
       IN IF call[w].key \notin DOMAIN items
          THEN /\ Return(w, FALSE, FALSE)
               /\ UNCHANGED <<now, last, items, written, hits>>
          ELSE /\ pc' = [pc EXCEPT ![w] = "delete"]
               /\ call' = [call EXCEPT ![w].value = r.value, ![w].found = r.found]
               /\ UNCHANGED <<now, last, items, mu, ret, written, hits>>
    /\ UNCHANGED storeVars
    /\ UNCHANGED oauthVars
    /\ UNCHANGED limitVars
    /\ UNCHANGED gateVars
    /\ UNCHANGED appVars

\* delete(c.items, key) and the return of GetAndDelete
GetAndDeleteDelete(w) ==
    /\ pc[w] = "delete"
    /\ items' = Remove(items, call[w].key)
    /\ written' = [written EXCEPT ![call[w].key] = NoEntry]
    /\ hits' = [hits EXCEPT ![call[w].key] = IF call[w].found THEN @ + 1 ELSE @]
    /\ Return(w, call[w].value, call[w].found)
    /\ UNCHANGED <<now, last>>
    /\ UNCHANGED storeVars
    /\ UNCHANGED oauthVars
    /\ UNCHANGED limitVars
    /\ UNCHANGED gateVars
    /\ UNCHANGED appVars

InvalidatePrefixBody(w) ==
    /\ pc[w] = "body" /\ call[w].fn = "InvalidatePrefix"
    /\ items' = CacheInvalidatePrefix(items, call[w].key)
    /\ written' = [k \in Keys |->
                     IF HasPrefix(k, call[w].key) THEN NoEntry ELSE written[k]]
    /\ Return(w, FALSE, FALSE)
    /\ UNCHANGED <<now, last, hits>>
    /\ UNCHANGED storeVars
    /\ UNCHANGED oauthVars
    /\ UNCHANGED limitVars
    /\ UNCHANGED gateVars
    /\ UNCHANGED appVars

ClearBody(w) ==
    /\ pc[w] = "body" /\ call[w].fn = "Clear"
    /\ items' = [k \in {} |-> NoEntry]
    /\ written' = [k \in Keys |-> NoEntry]
    /\ Return(w, FALSE, FALSE)
    /\ UNCHANGED <<now, last, hits>>
    /\ UNCHANGED storeVars
    /\ UNCHANGED oauthVars
    /\ UNCHANGED limitVars
    /\ UNCHANGED gateVars
    /\ UNCHANGED appVars

----------------------------------------------------------------------------
(* GitHub OAuth: GitHubOAuth issues a state into the StateCache, and        *)
(* GitHubOAuthCallback consumes it.  Each request runs on a goroutine of    *)
(* its own; its StateCache call goes through the cache's lock.              *)

\* 10*time.Minute
StateTTL == 10

GitHubIDs == {"gh1"}

GitHubLogins == {"octo"}
NoUser == [ID |-> 0, GitHubID |-> "", Username |-> ""]

NoFlow == [proc |-> "none", step |-> "none", state |-> <<>>, expiresAt |-> NoExpiry,
           unusable |-> FALSE, effects |-> {}, user |-> NoUser, result |-> ""]

\* a request ends: its goroutine is free again and the response is kept
Finished(w, result) ==
    [flow[w] EXCEPT !.proc = "none", !.step = "none", !.result = result]

\* the state parameters a client can send: the ones a GitHubOAuth response
\* carried, and one made up
Presentable == {s \in States : issued[s] # NoExpiry} \cup {Forged}

\* GetByGitHubID: the first item of the query, or "user not found"
GetByGitHubID(us, githubID) ==
    IF \E u \in us : u.GitHubID = githubID
    THEN CHOOSE u \in us : u.GitHubID = githubID
    ELSE NoUser

\* CreateOrUpdate: UpsertItem by item id within the github_id partition
CreateOrUpdate(us, user) ==
    {u \in us : ~(u.ID = user.ID /\ u.GitHubID = user.GitHubID)} \cup {user}

OAuthFrame ==
    /\ UNCHANGED <<now, last>>
    /\ UNCHANGED storeVars
    /\ UNCHANGED limitVars
    /\ UNCHANGED gateVars
    /\ UNCHANGED appVars

\* time passes, half a state lifetime at a step
Elapse ==
    /\ now < MaxStateTime
    /\ now' = now + StateTTL \div 2
    /\ UNCHANGED last
    /\ UNCHANGED storeVars
    /\ UNCHANGED cacheVars
    /\ UNCHANGED oauthVars
    /\ UNCHANGED limitVars
    /\ UNCHANGED gateVars
    /\ UNCHANGED appVars

\* GitHubOAuth up to stateCache.Set(state, time.Now().Add(10*time.Minute))
GitHubOAuth(w, fail) ==
    /\ flow[w].proc = "none"
    /\ pc[w] = "idle"
    /\ nextState < MaxStates
    /\ IF fail
       THEN /\ flow' = [flow EXCEPT ![w] =
                          [NoFlow EXCEPT !.result = "failed to generate state"]]
            /\ UNCHANGED nextState
            /\ UNCHANGED cacheVars
       ELSE /\ nextState' = nextState + 1
            /\ flow' = [flow EXCEPT ![w] =
                          [NoFlow EXCEPT !.proc = "GitHubOAuth", !.step = "set",
                                         !.state = StateSeq[nextState + 1],
                                         !.expiresAt = now + StateTTL]]
            /\ Enter(w, "Set", StateSeq[nextState + 1], TRUE, now + StateTTL)
    /\ UNCHANGED <<users, nextUser, issued, passed>>
    /\ OAuthFrame

\* GitHubOAuth returns the authorization URL and the state
GitHubOAuthReturn(w) ==
    /\ flow[w].proc = "GitHubOAuth"
    /\ pc[w] = "idle"
    /\ issued' = [issued EXCEPT ![flow[w].state] = flow[w].expiresAt]
    /\ flow' = [flow EXCEPT ![w] = Finished(w, "ok")]
    /\ UNCHANGED <<nextState, users, nextUser, passed>>
    /\ UNCHANGED cacheVars
    /\ OAuthFrame

\* the REST handler answers 400 when code or state is missing
GitHubOAuthCallbackBadRequest(w) ==
    /\ flow[w].proc = "none"
    /\ pc[w] = "idle"
    /\ flow' = [flow EXCEPT ![w] = [NoFlow EXCEPT !.result = "missing code or state"]]
    /\ UNCHANGED <<nextState, users, nextUser, issued, passed>>
    /\ UNCHANGED cacheVars
    /\ OAuthFrame

\* GitHubOAuthCallback up to stateCache.GetAndDelete(input.State)
GitHubOAuthCallback(w, state) ==
    /\ flow[w].proc = "none"
    /\ pc[w] = "idle"
    /\ state \in Presentable
    /\ flow' = [flow EXCEPT ![w] =
                  [NoFlow EXCEPT !.proc = "GitHubOAuthCallback", !.step = "state",
                                 !.state = state,
                                 !.unusable = \/ issued[state] = NoExpiry
                                            \/ passed[state] > 0
                                            \/ now > issued[state]]]
    /\ Enter(w, "GetAndDelete", state, FALSE, 0)
    /\ UNCHANGED <<nextState, users, nextUser, issued, passed>>
    /\ OAuthFrame

\* valid := stateCache.GetAndDelete(input.State); if !valid { "invalid state" }
CallbackValidateState(w) ==
    /\ flow[w].proc = "GitHubOAuthCallback" /\ flow[w].step = "state"
    /\ pc[w] = "idle"
    /\ IF ret[w].found
       THEN /\ flow' = [flow EXCEPT ![w].step = "exchange"]
            /\ passed' = [passed EXCEPT ![flow[w].state] = @ + 1]
       ELSE /\ flow' = [flow EXCEPT ![w] = Finished(w, "invalid state")]
            /\ UNCHANGED passed
    /\ UNCHANGED <<nextState, users, nextUser, issued>>
    /\ UNCHANGED cacheVars
    /\ OAuthFrame

\* githubOAuth.Exchange(ctx, input.Code)
CallbackExchange(w, fail) ==
    /\ flow[w].proc = "GitHubOAuthCallback" /\ flow[w].step = "exchange"
    /\ flow' = [flow EXCEPT ![w] =
                  IF fail
                  THEN [Finished(w, "failed to exchange token")
                          EXCEPT !.effects = @ \cup {"exchange"}]
                  ELSE [flow[w] EXCEPT !.step = "fetch",
                                       !.effects = @ \cup {"exchange"}]]
    /\ UNCHANGED <<nextState, users, nextUser, issued, passed>>
    /\ UNCHANGED cacheVars
    /\ OAuthFrame

\* auth.GetGitHubUser and the user built from it, with a GenerateID id
CallbackGetGitHubUser(w, githubID, login, fail) ==
    /\ flow[w].proc = "GitHubOAuthCallback" /\ flow[w].step = "fetch"
    /\ IF fail
       THEN /\ flow' = [flow EXCEPT ![w] = Finished(w, "failed to fetch GitHub user")]
            /\ UNCHANGED nextUser
       ELSE /\ nextUser' = nextUser + 1
            /\ flow' = [flow EXCEPT ![w].step = "lookup",
                                    ![w].user = [ID |-> nextUser + 1,
                                                 GitHubID |-> githubID,
                                                 Username |-> login]]
    /\ UNCHANGED <<nextState, users, issued, passed>>
    /\ UNCHANGED cacheVars
    /\ OAuthFrame

\* userRepo.GetByGitHubID: an existing user's id is kept, any error is "none"
CallbackGetByGitHubID(w, fail) ==
    /\ flow[w].proc = "GitHubOAuthCallback" /\ flow[w].step = "lookup"
    /\ LET existingUser == GetByGitHubID(users, flow[w].user.GitHubID)
       IN flow' = [flow EXCEPT ![w].step = "save",
                               ![w].user = IF fail \/ existingUser = NoUser
                                           THEN @
                                           ELSE [@ EXCEPT !.ID = existingUser.ID]]
    /\ UNCHANGED <<nextState, users, nextUser, issued, passed>>
    /\ UNCHANGED cacheVars
    /\ OAuthFrame

\* userRepo.CreateOrUpdate(ctx, user)
CallbackCreateOrUpdate(w, fail) ==
    /\ flow[w].proc = "GitHubOAuthCallback" /\ flow[w].step = "save"
    /\ IF fail
       THEN /\ flow' = [flow EXCEPT ![w] = Finished(w, "failed to save user")]
            /\ UNCHANGED users
       ELSE /\ users' = CreateOrUpdate(users, flow[w].user)
            /\ flow' = [flow EXCEPT ![w].step = "token",
                                    ![w].effects = @ \cup {"user"}]
    /\ UNCHANGED <<nextState, nextUser, issued, passed>>
    /\ UNCHANGED cacheVars
    /\ OAuthFrame

\* auth.GenerateToken and the return of the session token
CallbackGenerateToken(w, fail) ==
    /\ flow[w].proc = "GitHubOAuthCallback" /\ flow[w].step = "token"
    /\ flow' = [flow EXCEPT ![w] =
                  IF fail
                  THEN Finished(w, "failed to generate token")
                  ELSE [Finished(w, "ok") EXCEPT !.effects = @ \cup {"token"}]]
    /\ UNCHANGED <<nextState, users, nextUser, issued, passed>>
    /\ UNCHANGED cacheVars
    /\ OAuthFrame

----------------------------------------------------------------------------
(* storage.ApplicationRepository over the "applications" container and the  *)
(* admin operations on applications, each taken as one step.                *)

ApplicationLimit == 20

NoApplication == [ID |-> 0, OrganizationID |-> "", Name |-> ""]

\* CreateItem(app) and the audit record in one transactional batch
ApplicationRepository_Create(apps, audits, app, userID) ==
    [apps |-> apps \cup {app},
     audits |-> Append(audits, AuditRecord(app, "created", userID))]

ApplicationRepository_Get(apps, organizationID, id) ==
    LET hit == {a \in apps : a.OrganizationID = organizationID /\ a.ID = id}
    IN IF hit = {} THEN NoApplication ELSE CHOOSE a \in hit : TRUE

ApplicationRepository_Update_Silent(apps, audits, app, userID) ==
    [apps |-> {a \in apps : ~(a.OrganizationID = app.OrganizationID
                                /\ a.ID = app.ID)} \cup {app},
     audits |-> audits]

\* ReplaceItem(app.ID) and the audit record in one transactional batch
ApplicationRepository_Update(apps, audits, app, userID) ==
    [apps |-> {a \in apps : ~(a.OrganizationID = app.OrganizationID
                                /\ a.ID = app.ID)} \cup {app},
     audits |-> Append(audits, AuditRecord(app, "updated", userID))]

\* DeleteItem(app.ID) and the audit record in one transactional batch
ApplicationRepository_Delete(apps, audits, app, userID) ==
    [apps |-> {a \in apps : ~(a.OrganizationID = app.OrganizationID
                                /\ a.ID = app.ID)},
     audits |-> Append(audits, AuditRecord(app, "deleted", userID))]

ApplicationFrame ==
    /\ UNCHANGED <<now, serviceKeys, auditHistory, nextKey, rawOf>>
    /\ UNCHANGED cacheVars
    /\ UNCHANGED oauthVars
    /\ UNCHANGED limitVars
    /\ UNCHANGED gateVars

\* POST /applications; the id is the one GenerateID produces next
CreateApplication(org, user, name, fail) ==
    /\ Len(applicationHistory) < MaxAudit
    /\ LET req == [NoRequest EXCEPT !.op = "CreateApplication", !.org = org]
           count == Cardinality({a \in applications : a.OrganizationID = org})
           app == [ID |-> Len(applicationHistory) + 1, OrganizationID |-> org,
                   Name |-> name]
           done == ApplicationRepository_Create(applications, applicationHistory,
                                                app, user)
       IN IF name = "" THEN
            /\ last' = [req EXCEPT !.status = 400]
            /\ UNCHANGED appVars
          ELSE IF fail = "count" THEN
            /\ last' = [req EXCEPT !.status = 500]
            /\ UNCHANGED appVars
          ELSE IF count >= ApplicationLimit THEN
            /\ last' = [req EXCEPT !.status = 403]
            /\ UNCHANGED appVars
          ELSE IF fail = "write" THEN
            /\ last' = [req EXCEPT !.status = 500]
            /\ UNCHANGED appVars
          ELSE
            /\ applications' = done.apps
            /\ applicationHistory' = done.audits
            /\ last' = [req EXCEPT !.status = 201, !.id = app.ID]
    /\ ApplicationFrame

\* PUT /applications/{application_id}
UpdateApplication(org, user, id, name, fail) ==
    /\ Len(applicationHistory) < MaxAudit
    /\ LET req == [NoRequest EXCEPT !.op = "UpdateApplication", !.org = org, !.id = id]
           app == ApplicationRepository_Get(applications, org, id)
           done == ApplicationRepository_Update(applications, applicationHistory,
                                                [app EXCEPT !.Name = name], user)
       IN IF fail = "read" \/ app = NoApplication \/ fail = "write" THEN
            /\ last' = [req EXCEPT !.status = 500]
            /\ UNCHANGED appVars
          ELSE
            /\ applications' = done.apps
            /\ applicationHistory' = done.audits
            /\ last' = [req EXCEPT !.status = 200]
    /\ ApplicationFrame

\* ApplicationRepository.Delete of a stored application; no route calls it
DeleteApplication(org, user, id, fail) ==
    /\ Len(applicationHistory) < MaxAudit
    /\ LET req == [NoRequest EXCEPT !.op = "DeleteApplication", !.org = org, !.id = id]
           app == ApplicationRepository_Get(applications, org, id)
           done == ApplicationRepository_Delete(applications, applicationHistory,
                                                app, user)
       IN IF app = NoApplication \/ fail = "write" THEN
            /\ last' = [req EXCEPT !.status = 500]
            /\ UNCHANGED appVars
          ELSE
            /\ applications' = done.apps
            /\ applicationHistory' = done.audits
            /\ last' = [req EXCEPT !.status = 204]
    /\ ApplicationFrame

----------------------------------------------------------------------------
(* Creation limits.  CreateApplication, CreateServiceKey and CreateApiKey    *)
(* count the organization's items with one store call and create the new    *)
(* item with a second one; requests run on goroutines of their own, so      *)
(* other requests may run between the two calls.  held counts the items of  *)
(* each kind in each organization's partition.                              *)

Kinds == {"application", "service_key", "api_key"}

ApiKeyLimit == 50

Limit(kind) ==
    CASE kind = "application" -> ApplicationLimit
      [] kind = "service_key" -> ServiceKeyLimit
      [] kind = "api_key" -> ApiKeyLimit

LimitError(kind) ==
    CASE kind = "application" -> "ErrApplicationLimitExceeded"
      [] kind = "service_key" -> "ErrServiceKeyLimitExceeded"
      [] kind = "api_key" -> "ErrApiKeyLimitExceeded"

\* the limit test of the three create functions
LimitExceeded_Over(kind, count) == count > Limit(kind)

LimitExceeded(kind, count) == count >= Limit(kind)

\* the status the REST handlers give to an error of the core function
CreateStatus(err) ==
    CASE err = "" -> 201
      [] err = "ErrUserInfoNotFound" -> 401
      [] err \in {LimitError(kind) : kind \in Kinds} -> 403
      [] OTHER -> 500

\* count is -1 until CountByOrganization has answered
NoCreate == [kind |-> "", org |-> "", step |-> "idle", count |-> -1,
             calls |-> <<>>, err |-> "", status |-> 0]

CreateDone(c, err) == [c EXCEPT !.step = "done", !.err = err, !.status = CreateStatus(err)]

CreateFrame ==
    /\ UNCHANGED <<now, last>>
    /\ UNCHANGED storeVars
    /\ UNCHANGED cacheVars
    /\ UNCHANGED oauthVars
    /\ UNCHANGED gateVars
    /\ UNCHANGED appVars

\* a create request up to and including its limit test
CreateCount(w, kind, org, userInfo, fail) ==
    /\ create[w].step \in {"idle", "done"}
    /\ LET c == [NoCreate EXCEPT !.kind = kind, !.org = org]
           counted == [c EXCEPT !.calls = <<"CountByOrganization">>]
           count == held[kind][org]
       IN  create' = [create EXCEPT ![w] =
              IF ~userInfo THEN CreateDone(c, "ErrUserInfoNotFound")
              ELSE IF fail THEN CreateDone(counted, "failed to count")
              ELSE IF LimitExceeded(kind, count)
              THEN CreateDone([counted EXCEPT !.count = count], LimitError(kind))
              ELSE [counted EXCEPT !.step = "create", !.count = count]]
    /\ UNCHANGED held
    /\ CreateFrame

\* the repository's Create and the response
CreateWrite(w, fail) ==
    /\ create[w].step = "create"
    /\ LET c == [create[w] EXCEPT !.calls = Append(@, "Create")]
       IN  IF fail
           THEN /\ create' = [create EXCEPT ![w] = CreateDone(c, "failed to create")]
                /\ UNCHANGED held
           ELSE /\ create' = [create EXCEPT ![w] = CreateDone(c, "")]
                /\ held' = [held EXCEPT ![c.kind][c.org] = @ + 1]
    /\ CreateFrame

----------------------------------------------------------------------------
(* The middlewares of the REST router and the gRPC interceptor.  A session  *)
(* token is what its parsing yields: its form (well signed, signed with     *)
(* another key, or not a JWT at all), its claims and its expiry instant.    *)
(* An Authorization header is the list of its space-separated parts.        *)

JWTExpiration == 1440
MembershipTTL == 5

NoClaims == [UserID |-> 0, GitHubID |-> "", Username |-> ""]
NoToken == [form |-> "none", claims |-> NoClaims, exp |-> 0]
NoContext == [UserID |-> 0, GitHubID |-> "", Username |-> "", OrganizationID |-> <<>>]

\* the user of the store, under the name of an earlier login in the tokens
StoredUser == [ID |-> 1, GitHubID |-> "gh1", Username |-> "octocat"]

ClaimSets ==
    { [UserID |-> 1, GitHubID |-> "gh1", Username |-> "octo"],
      [UserID |-> 2, GitHubID |-> "gh2", Username |-> "gone"],
      [UserID |-> 1, GitHubID |-> "", Username |-> "octo"] }

SessionTokens ==
    { [form |-> "malformed", claims |-> NoClaims, exp |-> 0] } \cup
    { [form |-> f, claims |-> c, exp |-> e] :
        f \in {"signed", "forged"}, c \in ClaimSets, e \in {0, JWTExpiration} }

\* the valid token of the stored user
ValidToken ==
    [form |-> "signed",
     claims |-> [UserID |-> StoredUser.ID, GitHubID |-> StoredUser.GitHubID,
                 Username |-> "octo"],
     exp |-> JWTExpiration]

SessionHeaders ==
    { <<>>, <<"Bearer">>, <<"Basic", ValidToken>>, <<"bearer", ValidToken>>,
      <<"Bearer", ValidToken, "x">> } \cup
    { <<"Bearer", t>> : t \in SessionTokens }

\* the methods of the routes
Methods == {"GET"}

\* httputil.CORS: a preflight request is answered and goes no further
CORS(method) == method = "OPTIONS"

\* len(parts) == 2 && parts[0] == "Bearer", after the test for the empty header
BearerToken_AnyScheme(header) == Len(header) = 2

BearerToken(header) == Len(header) = 2 /\ header[1] = "Bearer"

\* a validation that gives up the claims of a token expired a lifetime ago
ValidateToken_MaxAge(token, at) ==
    IF token.form # "signed"
    THEN [claims |-> NoClaims, err |-> "invalid"]
    ELSE IF at >= token.exp
    THEN IF token.claims.UserID # 0 /\ token.claims.GitHubID # ""
            /\ at < token.exp + JWTExpiration
         THEN [claims |-> token.claims, err |-> "ErrTokenExpired"]
         ELSE [claims |-> NoClaims, err |-> "jwt.ErrTokenExpired"]
    ELSE [claims |-> token.claims, err |-> ""]

\* jwt.ParseWithClaims checks the form and the signature before the expiry
ValidateToken(token, at) ==
    IF token.form # "signed"
    THEN [claims |-> NoClaims, err |-> "invalid"]
    ELSE IF at >= token.exp
    THEN IF token.claims.UserID # 0 /\ token.claims.GitHubID # ""
         THEN [claims |-> token.claims, err |-> "ErrTokenExpired"]
         ELSE [claims |-> NoClaims, err |-> "jwt.ErrTokenExpired"]
    ELSE [claims |-> token.claims, err |-> ""]

GenerateToken(userID, githubID, username, at) ==
    [form |-> "signed",
     claims |-> [UserID |-> userID, GitHubID |-> githubID, Username |-> username],
     exp |-> at + JWTExpiration]

\* UserRepository.GetByID: ReadItem of id in the partition githubID
GetByID(us, id, githubID) ==
    IF \E u \in us : u.ID = id /\ u.GitHubID = githubID
    THEN CHOOSE u \in us : u.ID = id /\ u.GitHubID = githubID
    ELSE NoUser

\* the context a refreshed request goes on with
RefreshContext_Claims(user, claims) ==
    [NoContext EXCEPT !.UserID = claims.UserID, !.GitHubID = claims.GitHubID,
                      !.Username = claims.Username]

RefreshContext(user, claims) ==
    [NoContext EXCEPT !.UserID = user.ID, !.GitHubID = user.GitHubID,
                      !.Username = user.Username]

\* calls lists the store calls a middleware made, errs those that returned an error
Outcome(status, next, refreshed, ctx, calls, errs) ==
    [status |-> status, next |-> next, refreshed |-> refreshed, ctx |-> ctx,
     calls |-> calls, errs |-> errs]

Rejected(status, calls, errs) == Outcome(status, FALSE, NoToken, NoContext, calls, errs)

\* a middleware that asks every request for its credential
JWTAuthMiddleware_NoBypass(method, header, us, at, lookupFails) ==
    IF header = <<>> THEN Rejected(401, <<>>, <<>>)
    ELSE IF ~BearerToken(header) THEN Rejected(401, <<>>, <<>>)
    ELSE LET v == ValidateToken(header[2], at)
             user == IF lookupFails THEN NoUser
                     ELSE GetByID(us, v.claims.UserID, v.claims.GitHubID)
         IN  IF v.err = "ErrTokenExpired" /\ v.claims # NoClaims
             THEN IF user = NoUser
                  THEN Rejected(401, <<"GetByID">>, <<"GetByID">>)
                  ELSE Outcome(0, TRUE,
                               GenerateToken(user.ID, user.GitHubID, user.Username, at),
                               RefreshContext(user, v.claims), <<"GetByID">>, <<>>)
             ELSE IF v.err # "" THEN Rejected(401, <<>>, <<>>)
             ELSE Outcome(0, TRUE, NoToken,
                          [NoContext EXCEPT !.UserID = v.claims.UserID,
                                            !.GitHubID = v.claims.GitHubID,
                                            !.Username = v.claims.Username], <<>>, <<>>)

\* GenerateToken signs with HS256 and a byte-slice key, which does not fail
JWTAuthMiddleware(method, header, us, at, lookupFails) ==
    IF method = "OPTIONS" THEN Outcome(0, TRUE, NoToken, NoContext, <<>>, <<>>)
    ELSE IF header = <<>> THEN Rejected(401, <<>>, <<>>)
    ELSE IF ~BearerToken(header) THEN Rejected(401, <<>>, <<>>)
    ELSE LET v == ValidateToken(header[2], at)
             user == IF lookupFails THEN NoUser
                     ELSE GetByID(us, v.claims.UserID, v.claims.GitHubID)
         IN  IF v.err = "ErrTokenExpired" /\ v.claims # NoClaims
             THEN IF user = NoUser
                  THEN Rejected(401, <<"GetByID">>, <<"GetByID">>)
                  ELSE Outcome(0, TRUE,
                               GenerateToken(user.ID, user.GitHubID, user.Username, at),
                               RefreshContext(user, v.claims), <<"GetByID">>, <<>>)
             ELSE IF v.err # "" THEN Rejected(401, <<>>, <<>>)
             ELSE Outcome(0, TRUE, NoToken,
                          [NoContext EXCEPT !.UserID = v.claims.UserID,
                                            !.GitHubID = v.claims.GitHubID,
                                            !.Username = v.claims.Username], <<>>, <<>>)

\* ApiKeyRepository.FindByTokenValue answers with a key or with an error,
\* for a token it does not know as for a query that failed
NoLookup == [err |-> "", ExpiresAt |-> NoExpiry]

ApiKeyLookups ==
    { [err |-> e, ExpiresAt |-> NoExpiry] : e \in {"not found", "failed"} } \cup
    { [err |-> "", ExpiresAt |-> e] : e \in {NoExpiry, MembershipTTL} }

\* the raw API key a caller presents
ApiKeyToken == [form |-> "api key", claims |-> NoClaims, exp |-> 0]

ApiKeyHeaders == { <<>>, <<"Bearer">>, <<"Basic", ApiKeyToken>>, <<"Bearer", ApiKeyToken>>,
                   <<"Bearer", ApiKeyToken, "x">> }

\* ApiKeyValidator.Validate
Validate_Strict(lookup, at) ==
    IF lookup.err # "" THEN [valid |-> FALSE, err |-> lookup.err]
    ELSE IF IsExpired(lookup, at) THEN [valid |-> FALSE, err |-> ""]
    ELSE [valid |-> TRUE, err |-> ""]

Validate(lookup, at) ==
    IF lookup.err # "" THEN [valid |-> FALSE, err |-> ""]
    ELSE IF IsExpired(lookup, at) THEN [valid |-> FALSE, err |-> ""]
    ELSE [valid |-> TRUE, err |-> ""]

\* the status of the response, 0 when the request is handed on
ApiKeyAuthMiddleware(header, lookup, at) ==
    IF header = <<>> THEN 401
    ELSE IF ~BearerToken(header) THEN 401
    ELSE LET v == Validate(lookup, at)
         IN  IF v.err # "" THEN 500
             ELSE IF ~v.valid THEN 401
             ELSE 0

\* the code of the connect error, "" when the request is handed on
ApiKeyAuthInterceptor(header, lookup, at) ==
    IF header = <<>> THEN "Unauthenticated"
    ELSE IF ~BearerToken(header) THEN "Unauthenticated"
    ELSE LET v == Validate(lookup, at)
         IN  IF v.err # "" THEN "Internal"
             ELSE IF ~v.valid THEN "Unauthenticated"
             ELSE ""

NoResponse == [mw |-> "none", method |-> "", header |-> <<>>, org |-> <<>>,
               status |-> 0, code |-> "", next |-> FALSE, refreshed |-> NoToken,
               ctx |-> NoContext, calls |-> <<>>, errs |-> <<>>, lookup |-> NoLookup,
               failed |-> FALSE, hit |-> FALSE, cached |-> FALSE]

GateFrame ==
    /\ UNCHANGED <<last, mu, pc, call, ret, written, hits>>
    /\ UNCHANGED storeVars
    /\ UNCHANGED oauthVars
    /\ UNCHANGED limitVars
    /\ UNCHANGED appVars

\* an OPTIONS request to any route of either server
Preflight ==
    /\ CORS("OPTIONS")
    /\ resp' = [NoResponse EXCEPT !.mw = "cors", !.method = "OPTIONS", !.status = 200]
    /\ UNCHANGED <<now, items, members, organizations>>
    /\ GateFrame

\* a request to a route of /admin/v1 outside the organization group
AdminRoute(method, header, lookupFails) ==
    /\ LET out == JWTAuthMiddleware(method, header, users, now, lookupFails)
       IN  resp' = IF CORS(method)
                   THEN [NoResponse EXCEPT !.mw = "cors", !.method = method,
                                           !.header = header, !.status = 200]
                   ELSE [NoResponse EXCEPT !.mw = "jwt", !.method = method,
                                           !.header = header, !.status = out.status,
                                           !.next = out.next,
                                           !.refreshed = out.refreshed,
                                           !.ctx = out.ctx, !.calls = out.calls,
                                           !.errs = out.errs,
                                           !.failed = lookupFails /\ out.calls # <<>>]
    /\ UNCHANGED <<now, items, members, organizations>>
    /\ GateFrame

\* time passes, the lifetime of a session token at a step
ElapseDay ==
    /\ now < MaxDays * JWTExpiration
    /\ now' = now + JWTExpiration
    /\ UNCHANGED <<resp, items, members, organizations>>
    /\ GateFrame

\* organization ids and user ids as the texts the cache keys are made of
GateOrgs == { <<"a">>, <<"a", "b">> }

IDText(userID) == IF userID = StoredUser.ID THEN <<"u">> ELSE <<"v">>

\* MembershipCache.key
MembershipKey_UserOnly(orgID, userID) == <<"a">> \o <<":">> \o IDText(userID)

MembershipKey(orgID, userID) == orgID \o <<":">> \o IDText(userID)

IsMember_LegacyFirst(mem, orgs, orgID, userID, readFails, getFails) ==
    IF ~getFails /\ orgID \in DOMAIN orgs /\ userID \in orgs[orgID]
    THEN [isMember |-> TRUE, err |-> "", calls |-> <<"Get">>, errs |-> <<>>]
    ELSE IF readFails
    THEN [isMember |-> FALSE, err |-> "store", calls |-> <<"Get", "ReadItem">>,
          errs |-> <<"ReadItem">>]
    ELSE [isMember |-> <<orgID, userID>> \in mem, err |-> "",
          calls |-> <<"Get", "ReadItem">>, errs |-> <<>>]

\* OrganizationMemberRepository.IsMember.  readFails: ReadItem fails other
\* than by 404; getFails: orgRepo.Get returns an error.
IsMember(mem, orgs, orgID, userID, readFails, getFails) ==
    IF readFails
    THEN [isMember |-> FALSE, err |-> "store", calls |-> <<"ReadItem">>,
          errs |-> <<"ReadItem">>]
    ELSE IF <<orgID, userID>> \in mem
    THEN [isMember |-> TRUE, err |-> "", calls |-> <<"ReadItem">>, errs |-> <<>>]
    ELSE IF getFails \/ orgID \notin DOMAIN orgs
    THEN [isMember |-> FALSE, err |-> "", calls |-> <<"ReadItem", "Get">>,
          errs |-> <<"Get">>]
    ELSE [isMember |-> userID \in orgs[orgID], err |-> "",
          calls |-> <<"ReadItem", "Get">>, errs |-> <<>>]

MembershipCache_Set_Long(its, key, isMember, at) ==
    Store(its, key, CacheEntry(isMember, at + 2 * MembershipTTL))

\* MembershipCache.Set: c.cache.SetWithTTL(key, isMember, c.ttl)
MembershipCache_Set(its, key, isMember, at) ==
    Store(its, key, CacheEntry(isMember, at + MembershipTTL))

\* the middleware's outcome and the cache it leaves
OrganizationMembershipMiddleware(method, orgID, ctx, its, at, mem, orgs, readFails, getFails) ==
    LET out(status, next, c, i, store, hit, cached) ==
            [status |-> status, next |-> next, ctx |-> c, items |-> i,
             calls |-> store.calls, errs |-> store.errs, hit |-> hit, cached |-> cached]
        none == [calls |-> <<>>, errs |-> <<>>]
    IN  IF method = "OPTIONS" THEN out(0, TRUE, ctx, its, none, FALSE, FALSE)
        ELSE IF orgID = <<>> THEN out(401, FALSE, ctx, its, none, FALSE, FALSE)
        ELSE IF ctx.UserID = 0 THEN out(401, FALSE, ctx, its, none, FALSE, FALSE)
        ELSE LET key == MembershipKey(orgID, ctx.UserID)
                 got == CacheGet(its, key, at)
                 store == IsMember(mem, orgs, orgID, ctx.UserID, readFails, getFails)
                 isMember == IF got.found THEN got.value ELSE store.isMember
                 after == IF got.found THEN its
                          ELSE MembershipCache_Set(its, key, store.isMember, at)
                 used == IF got.found THEN none ELSE store
             IN  IF ~got.found /\ store.err # ""
                 THEN out(500, FALSE, ctx, its, store, FALSE, FALSE)
                 ELSE IF ~isMember
                 THEN out(401, FALSE, ctx, after, used, got.found, ~got.found)
                 ELSE out(0, TRUE, [ctx EXCEPT !.OrganizationID = orgID], after, used,
                          got.found, ~got.found)

\* the session headers sent to the organization routes: none, a valid and
\* an expired token of the stored user
OrganizationHeaders ==
    { <<>> } \cup
    { <<"Bearer", [form |-> "signed", claims |-> c, exp |-> e]>> :
        c \in {c \in ClaimSets : c.GitHubID = StoredUser.GitHubID}, e \in {0, JWTExpiration} }

\* a request to a route of the organization group of /admin/v1
OrganizationRoute(method, header, orgID, readFails, getFails) ==
    /\ LET jwt == JWTAuthMiddleware(method, header, users, now, FALSE)
           out == OrganizationMembershipMiddleware(method, orgID, jwt.ctx, items, now,
                                                   members, organizations,
                                                   readFails, getFails)
           r == [NoResponse EXCEPT !.method = method, !.header = header, !.org = orgID]
       IN  IF CORS(method)
           THEN /\ resp' = [r EXCEPT !.mw = "cors", !.status = 200]
                /\ UNCHANGED items
           ELSE IF ~jwt.next
           THEN /\ resp' = [r EXCEPT !.mw = "jwt", !.status = jwt.status,
                                     !.calls = jwt.calls, !.errs = jwt.errs]
                /\ UNCHANGED items
           ELSE /\ resp' = [r EXCEPT !.mw = "membership", !.status = out.status,
                                     !.next = out.next, !.refreshed = jwt.refreshed,
                                     !.ctx = out.ctx, !.calls = jwt.calls \o out.calls,
                                     !.errs = out.errs,
                                     !.failed = out.errs # <<>>,
                                     !.hit = out.hit, !.cached = out.cached]
                /\ items' = out.items
    /\ UNCHANGED <<now, members, organizations>>
    /\ GateFrame

\* OrganizationMemberRepository.AddMember: CreateItem of the member record
AddMember(orgID, userID, fail) ==
    /\ members' = IF fail THEN members ELSE members \cup {<<orgID, userID>>}
    /\ UNCHANGED <<now, items, resp, organizations>>
    /\ GateFrame

\* OrganizationMemberRepository.RemoveMember: DeleteItem of the member record
RemoveMember(orgID, userID, fail) ==
    /\ members' = IF fail THEN members ELSE members \ {<<orgID, userID>>}
    /\ UNCHANGED <<now, items, resp, organizations>>
    /\ GateFrame

\* the store call of Validate, made once the header has been accepted
ValidateCalls(header) ==
    IF header # <<>> /\ BearerToken(header) THEN <<"FindByTokenValue">> ELSE <<>>

\* a request to /api/v1 of the REST server
ApiRoute(method, header, lookup) ==
    /\ LET status == ApiKeyAuthMiddleware(header, lookup, now)
       IN  resp' = IF CORS(method)
                   THEN [NoResponse EXCEPT !.mw = "cors", !.method = method,
                                           !.header = header, !.status = 200]
                   ELSE [NoResponse EXCEPT !.mw = "apikey", !.method = method,
                                           !.header = header, !.status = status,
                                           !.next = (status = 0),
                                           !.calls = ValidateCalls(header),
                                           !.lookup = IF ValidateCalls(header) = <<>>
                                                      THEN NoLookup ELSE lookup]
    /\ UNCHANGED <<now, items, members, organizations>>
    /\ GateFrame

\* The handlers the middlewares return, served a request of any method:
\* the chains of /admin/v1, of its organization group and of /api/v1 as
\* net/http runs them when nothing in front of them answers the request.
RequestMethods == {"GET", "OPTIONS"}

\* JWTAuthMiddleware(cfg, userRepo)(next).ServeHTTP
ServeAdmin(method, header, lookupFails) ==
    /\ LET out == JWTAuthMiddleware(method, header, users, now, lookupFails)
       IN  resp' = [NoResponse EXCEPT !.mw = "jwt", !.method = method,
                                      !.header = header, !.status = out.status,
                                      !.next = out.next, !.refreshed = out.refreshed,
                                      !.ctx = out.ctx, !.calls = out.calls,
                                      !.errs = out.errs,
                                      !.failed = lookupFails /\ out.calls # <<>>]
    /\ UNCHANGED <<now, items, members, organizations>>
    /\ GateFrame

\* JWTAuthMiddleware(...)(OrganizationMembershipMiddleware(...)(next)).ServeHTTP
ServeOrganization(method, header, orgID, readFails, getFails) ==
    /\ LET jwt == JWTAuthMiddleware(method, header, users, now, FALSE)
           out == OrganizationMembershipMiddleware(method, orgID, jwt.ctx, items, now,
                                                   members, organizations,
                                                   readFails, getFails)
           r == [NoResponse EXCEPT !.method = method, !.header = header, !.org = orgID]
       IN  IF ~jwt.next
           THEN /\ resp' = [r EXCEPT !.mw = "jwt", !.status = jwt.status,
                                     !.calls = jwt.calls, !.errs = jwt.errs]
                /\ UNCHANGED items
           ELSE /\ resp' = [r EXCEPT !.mw = "membership", !.status = out.status,
                                     !.next = out.next, !.refreshed = jwt.refreshed,
                                     !.ctx = out.ctx, !.calls = jwt.calls \o out.calls,
                                     !.errs = out.errs,
                                     !.failed = out.errs # <<>>,
                                     !.hit = out.hit, !.cached = out.cached]
                /\ items' = out.items
    /\ UNCHANGED <<now, members, organizations>>
    /\ GateFrame

\* ApiKeyAuthMiddleware(validator)(next).ServeHTTP, which does not read r.Method
ServeApi(method, header, lookup) ==
    /\ LET status == ApiKeyAuthMiddleware(header, lookup, now)
       IN  resp' = [NoResponse EXCEPT !.mw = "apikey", !.method = method,
                                      !.header = header, !.status = status,
                                      !.next = (status = 0),
                                      !.calls = ValidateCalls(header),
                                      !.lookup = IF ValidateCalls(header) = <<>>
                                                 THEN NoLookup ELSE lookup]
    /\ UNCHANGED <<now, items, members, organizations>>
    /\ GateFrame

\* a unary call to the Connect server
ConnectCall(header, lookup) ==
    /\ LET code == ApiKeyAuthInterceptor(header, lookup, now)
       IN  resp' = [NoResponse EXCEPT !.mw = "interceptor", !.method = "POST",
                                      !.header = header, !.code = code,
                                      !.next = (code = ""),
                                      !.calls = ValidateCalls(header),
                                      !.lookup = IF ValidateCalls(header) = <<>>
                                                 THEN NoLookup ELSE lookup]
    /\ UNCHANGED <<now, items, members, organizations>>
    /\ GateFrame

----------------------------------------------------------------------------
(* Organizations: POST /admin/v1/organizations behind the JWT middleware,   *)
(* and the membership check of the member repository called on its own.     *)

\* the ids GenerateID returns for organizations, in the order of the calls
OrgSeq == << <<"c", "1">>, <<"c", "2">>, <<"c", "3">> >>

\* the member repositories CreateOrganization can be handed: main hands it
\* the *storage.OrganizationMemberRepository it constructed
MemberRepos == {"OrganizationMemberRepository"}

OrgNames == {"", "ab", "Acme"}

\* the organizations created by requests
CreatedOrgs == DOMAIN organizations \ GateOrgs

\* OrganizationRepository.Create: CreateItem of the organization, whose
\* MemberIDs the caller left empty
OrganizationRepository_Create(orgs, orgID) ==
    [o \in DOMAIN orgs \cup {orgID} |-> IF o = orgID THEN {} ELSE orgs[o]]

CreateOrganizationWithMember_TwoWrites(orgs, mem, orgID, userID, fail) ==
    IF fail
    THEN [orgs |-> OrganizationRepository_Create(orgs, orgID), members |-> mem,
          err |-> "transactional batch failed"]
    ELSE [orgs |-> OrganizationRepository_Create(orgs, orgID),
          members |-> mem \cup {<<orgID, userID>>}, err |-> ""]

\* one transactional batch on the organization's partition: CreateItem of the
\* organization and CreateItem of the member record
CreateOrganizationWithMember(orgs, mem, orgID, userID, fail) ==
    IF fail
    THEN [orgs |-> orgs, members |-> mem, err |-> "transactional batch failed"]
    ELSE [orgs |-> OrganizationRepository_Create(orgs, orgID),
          members |-> mem \cup {<<orgID, userID>>}, err |-> ""]

\* admin.CreateOrganization.  fail names the store call that fails: "batch",
\* or "create" and "member" on the two-step path
AdminCreateOrganization(orgs, mem, ctx, repo, orgID, fail) ==
    IF ctx.UserID = 0
    THEN [orgs |-> orgs, members |-> mem, err |-> "ErrUserInfoNotFound"]
    ELSE IF repo = "OrganizationMemberRepository"
    THEN CreateOrganizationWithMember(orgs, mem, orgID, ctx.UserID, fail = "batch")
    ELSE IF fail = "create"
    THEN [orgs |-> orgs, members |-> mem, err |-> "create"]
    ELSE IF repo = "nil"
    THEN [orgs |-> OrganizationRepository_Create(orgs, orgID), members |-> mem,
          err |-> "member repository is required"]
    ELSE IF fail = "member"
    THEN [orgs |-> OrganizationRepository_Create(orgs, orgID), members |-> mem,
          err |-> "failed to add creator as organization member"]
    ELSE [orgs |-> OrganizationRepository_Create(orgs, orgID),
          members |-> mem \cup {<<orgID, ctx.UserID>>}, err |-> ""]

\* handlers.CreateOrganization behind JWTAuthMiddleware
CreateOrganization(header, name, repo, fail) ==
    /\ Cardinality(CreatedOrgs) < MaxOrgs
    /\ LET jwt == JWTAuthMiddleware("POST", header, users, now, FALSE)
           orgID == OrgSeq[Cardinality(CreatedOrgs) + 1]
           out == AdminCreateOrganization(organizations, members, jwt.ctx, repo,
                                          orgID, fail)
           r == [NoResponse EXCEPT !.method = "POST", !.header = header,
                                   !.refreshed = jwt.refreshed, !.calls = jwt.calls]
       IN  IF ~jwt.next
           THEN /\ resp' = [r EXCEPT !.mw = "jwt", !.status = jwt.status]
                /\ UNCHANGED <<organizations, members>>
           ELSE IF name = "" \/ name = "ab"
           THEN /\ resp' = [r EXCEPT !.mw = "CreateOrganization", !.status = 400,
                                     !.ctx = jwt.ctx]
                /\ UNCHANGED <<organizations, members>>
           ELSE /\ resp' = [r EXCEPT !.mw = "CreateOrganization", !.ctx = jwt.ctx,
                                     !.org = orgID, !.failed = fail # "none",
                                     !.status = IF out.err = "" THEN 201
                                                ELSE IF out.err = "ErrUserInfoNotFound"
                                                THEN 401 ELSE 500]
                /\ organizations' = out.orgs
                /\ members' = out.members
    /\ UNCHANGED <<now, items>>
    /\ GateFrame

\* a call of memberRepo.IsMember and what it returned
MembershipCheck(orgID, userID, readFails, getFails) ==
    /\ LET out == IsMember(members, organizations, orgID, userID, readFails, getFails)
       IN  resp' = [NoResponse EXCEPT !.mw = "IsMember", !.org = orgID,
                                      !.ctx = [NoContext EXCEPT !.UserID = userID],
                                      !.next = out.isMember,
                                      !.status = IF out.err = "" THEN 0 ELSE 500,
                                      !.calls = out.calls, !.errs = out.errs,
                                      !.failed = out.errs # <<>>]
    /\ UNCHANGED <<now, items, members, organizations>>
    /\ GateFrame

----------------------------------------------------------------------------
(* The specification of the credential store and the access validator *)

\* the state after construction, but for the items the containers hold
InitBase ==
    /\ now = 0
    /\ serviceKeys = {}
    /\ auditHistory = <<>>
    /\ nextKey = 0
    /\ rawOf = [i \in 1..MaxKeys |-> ""]
    /\ last = NoRequest
    /\ items = [k \in {} |-> NoEntry]
    /\ mu = [writer |-> NoWorker, readers |-> {}]
    /\ pc = [w \in Workers |-> "idle"]
    /\ call = [w \in Workers |-> NoCall]
    /\ ret = [w \in Workers |-> NoReturn]
    /\ written = [k \in Keys |-> NoEntry]
    /\ hits = [k \in Keys |-> 0]
    /\ flow = [w \in Workers |-> NoFlow]
    /\ nextState = 0
    /\ nextUser = 0
    /\ issued = [s \in States |-> NoExpiry]
    /\ passed = [s \in States |-> 0]
    /\ create = [w \in Workers |-> NoCreate]
    /\ resp = NoResponse
    /\ applications = {}
    /\ applicationHistory = <<>>

\* empty containers
Init ==
    /\ InitBase
    /\ users = {}
    /\ held = [kind \in Kinds |-> [org \in Orgs |-> 0]]
    /\ members = {}
    /\ organizations = [org \in {} |-> {}]

Next ==
    \/ Tick
    \/ \E org \in Orgs, user \in Users, name \in NameInputs, apps \in GrantLists,
          exp \in Expiries, fail \in {"none", "count", "write"} :
          CreateServiceKey(org, user, name, apps, exp, fail)
    \/ \E org \in Orgs, id \in 1..MaxKeys, fail \in {"none", "read"} :
          GetServiceKey(org, id, fail)
    \/ \E org \in Orgs, fail \in {"none", "read"} : ListServiceKeys(org, fail)
    \/ \E org \in Orgs, user \in Users, id \in 1..MaxKeys, name \in NameInputs,
          apps \in GrantLists, exp \in Expiries, fail \in {"none", "read", "write"} :
          UpdateServiceKey(org, user, id, name, apps, exp, fail)
    \/ \E org \in Orgs, user \in Users, id \in 1..MaxKeys,
          fail \in {"none", "read", "write"} :
          DeleteServiceKey(org, user, id, fail)
    \/ \E token \in PresentedTokens, app \in AppNames,
          org \in Orgs \cup {""}, lookupFails \in BOOLEAN :
          ValidateAccessCall(token, app, org, lookupFails)

Spec == Init /\ [][Next]_vars

\* the cache used by concurrent goroutines
CacheNext ==
    \/ Tick
    \/ \E w \in Workers, key \in CacheKeys : CallGet(w, key)
    \/ \E w \in Workers, key \in CacheKeys, value \in CacheValues,
          expiresAt \in ExpiryInstants : CallSet(w, key, value, expiresAt)
    \/ \E w \in Workers, key \in CacheKeys, value \in CacheValues, ttl \in TTLs :
          CallSetWithTTL(w, key, value, ttl)
    \/ \E w \in Workers, key \in CacheKeys : CallDelete(w, key)
    \/ \E w \in Workers, key \in CacheKeys : CallGetAndDelete(w, key)
    \/ \E w \in Workers, prefix \in Prefixes : CallInvalidatePrefix(w, prefix)
    \/ \E w \in Workers : CallClear(w)
    \/ \E w \in Workers : Acquire(w)
    \/ \E w \in Workers : GetBody(w)
    \/ \E w \in Workers : SetBody(w)
    \/ \E w \in Workers : DeleteBody(w)
    \/ \E w \in Workers : GetAndDeleteLookup(w)
    \/ \E w \in Workers : GetAndDeleteDelete(w)
    \/ \E w \in Workers : InvalidatePrefixBody(w)
    \/ \E w \in Workers : ClearBody(w)

SpecCache == Init /\ [][CacheNext]_vars

\* the OAuth requests served by concurrent goroutines
OAuthNext ==
    \/ Elapse
    \/ \E w \in Workers, fail \in BOOLEAN : GitHubOAuth(w, fail)
    \/ \E w \in Workers : GitHubOAuthReturn(w)
    \/ \E w \in Workers : GitHubOAuthCallbackBadRequest(w)
    \/ \E w \in Workers, state \in States : GitHubOAuthCallback(w, state)
    \/ \E w \in Workers : CallbackValidateState(w)
    \/ \E w \in Workers, fail \in BOOLEAN : CallbackExchange(w, fail)
    \/ \E w \in Workers, githubID \in GitHubIDs, login \in GitHubLogins,
          fail \in BOOLEAN : CallbackGetGitHubUser(w, githubID, login, fail)
    \/ \E w \in Workers, fail \in BOOLEAN : CallbackGetByGitHubID(w, fail)
    \/ \E w \in Workers, fail \in BOOLEAN : CallbackCreateOrUpdate(w, fail)
    \/ \E w \in Workers, fail \in BOOLEAN : CallbackGenerateToken(w, fail)
    \/ \E w \in Workers : Acquire(w)
    \/ \E w \in Workers : SetBody(w)
    \/ \E w \in Workers : GetAndDeleteLookup(w)
    \/ \E w \in Workers : GetAndDeleteDelete(w)

SpecOAuth == Init /\ [][OAuthNext]_vars

\* the operations that write applications and service keys; the service
\* keys carry no grants and no expiry here
AuditNext ==
    \/ \E org \in Orgs, user \in Users, name \in NameInputs,
          fail \in {"none", "count", "write"} :
          CreateServiceKey(org, user, name, <<>>, NoExpiry, fail)
    \/ \E org \in Orgs, user \in Users, id \in 1..MaxKeys, name \in NameInputs,
          fail \in {"none", "read", "write"} :
          UpdateServiceKey(org, user, id, name, <<>>, NoExpiry, fail)
    \/ \E org \in Orgs, user \in Users, id \in 1..MaxKeys,
          fail \in {"none", "read", "write"} :
          DeleteServiceKey(org, user, id, fail)
    \/ \E org \in Orgs, user \in Users, name \in AppNames \cup {""},
          fail \in {"none", "count", "write"} : CreateApplication(org, user, name, fail)
    \/ \E org \in Orgs, user \in Users, id \in 1..MaxAudit, name \in AppNames,
          fail \in {"none", "read", "write"} : UpdateApplication(org, user, id, name, fail)
    \/ \E org \in Orgs, user \in Users, id \in 1..MaxAudit, fail \in {"none", "write"} :
          DeleteApplication(org, user, id, fail)

SpecAudit == Init /\ [][AuditNext]_vars

\* create requests served by concurrent goroutines; orgA is Headroom items
\* short of each limit and orgB holds as many items as the limits allow
LimitsInit ==
    /\ InitBase
    /\ users = {}
    /\ held = [kind \in Kinds |->
                [org \in Orgs |-> IF org = "orgA" THEN Limit(kind) - Headroom
                                                 ELSE Limit(kind)]]
    /\ members = {}
    /\ organizations = [org \in {} |-> {}]

LimitsNext ==
    \/ \E w \in Workers, kind \in Kinds, org \in Orgs, userInfo \in BOOLEAN,
          fail \in BOOLEAN : CreateCount(w, kind, org, userInfo, fail)
    \/ \E w \in Workers, fail \in BOOLEAN : CreateWrite(w, fail)

SpecLimits == LimitsInit /\ [][LimitsNext]_vars

\* requests through the middlewares; the store holds one user, tokens also
\* name a user whose record is gone; the user is a member of organization
\* "ab" through its legacy member list
GateInit ==
    /\ InitBase
    /\ users = {StoredUser}
    /\ held = [kind \in Kinds |-> [org \in Orgs |-> 0]]
    /\ members = {}
    /\ organizations = [org \in GateOrgs |->
                          IF org = <<"a", "b">> THEN {StoredUser.ID} ELSE {}]

\* the authentication middlewares
AuthNext ==
    \/ Elapse
    \/ Preflight
    \/ \E method \in Methods, header \in SessionHeaders, lookupFails \in BOOLEAN :
          AdminRoute(method, header, lookupFails)
    \/ \E method \in Methods, header \in ApiKeyHeaders, lookup \in ApiKeyLookups :
          ApiRoute(method, header, lookup)
    \/ \E header \in ApiKeyHeaders, lookup \in ApiKeyLookups : ConnectCall(header, lookup)

SpecAuth == GateInit /\ [][AuthNext]_vars

\* the organization routes and the membership records
GateNext ==
    \/ Elapse
    \/ Preflight
    \/ \E method \in Methods, header \in OrganizationHeaders,
          orgID \in GateOrgs \cup {<<>>}, readFails \in BOOLEAN, getFails \in BOOLEAN :
          OrganizationRoute(method, header, orgID, readFails, getFails)
    \/ \E orgID \in GateOrgs, fail \in BOOLEAN : AddMember(orgID, StoredUser.ID, fail)
    \/ \E orgID \in GateOrgs, fail \in BOOLEAN : RemoveMember(orgID, StoredUser.ID, fail)

SpecGate == GateInit /\ [][GateNext]_vars

\* the session of a client over days: it presents a token of its own or the
\* one the last response carried in X-Refreshed-Token
RefreshNext ==
    \/ ElapseDay
    \/ \E method \in Methods, lookupFails \in BOOLEAN,
          header \in SessionHeaders \cup {<<"Bearer", resp.refreshed>>} :
          AdminRoute(method, header, lookupFails)

SpecRefresh == GateInit /\ [][RefreshNext]_vars

\* the middlewares by themselves, served requests of every method
MiddlewareNext ==
    \/ Elapse
    \/ \E method \in RequestMethods, header \in SessionHeaders, lookupFails \in BOOLEAN :
          ServeAdmin(method, header, lookupFails)
    \/ \E method \in RequestMethods, header \in OrganizationHeaders,
          orgID \in GateOrgs \cup {<<>>}, readFails \in BOOLEAN, getFails \in BOOLEAN :
          ServeOrganization(method, header, orgID, readFails, getFails)
    \/ \E method \in RequestMethods, header \in ApiKeyHeaders, lookup \in ApiKeyLookups :
          ServeApi(method, header, lookup)

SpecMiddleware == GateInit /\ [][MiddlewareNext]_vars

\* organizations created and their members
OrgsNext ==
    \/ \E header \in OrganizationHeaders, name \in OrgNames, repo \in MemberRepos,
          fail \in {"none", "batch"} : CreateOrganization(header, name, repo, fail)
    \/ \E orgID \in DOMAIN organizations, fail \in BOOLEAN :
          AddMember(orgID, StoredUser.ID, fail)
    \/ \E orgID \in DOMAIN organizations, fail \in BOOLEAN :
          RemoveMember(orgID, StoredUser.ID, fail)
    \/ \E orgID \in GateOrgs \cup {OrgSeq[i] : i \in 1..Len(OrgSeq)},
          userID \in {StoredUser.ID, 2}, readFails \in BOOLEAN, getFails \in BOOLEAN :
          MembershipCheck(orgID, userID, readFails, getFails)

SpecOrgs == GateInit /\ [][OrgsNext]_vars

\* two browsers hold a state each, handed out by GitHubOAuth a moment ago,
\* and no user has logged in yet
LoginStates == {StateSeq[1], StateSeq[2]}

LoginInit ==
    /\ now = 0
    /\ serviceKeys = {}
    /\ auditHistory = <<>>
    /\ nextKey = 0
    /\ rawOf = [i \in 1..MaxKeys |-> ""]
    /\ last = NoRequest
    /\ items = [k \in LoginStates |-> CacheEntry(TRUE, StateTTL)]
    /\ mu = [writer |-> NoWorker, readers |-> {}]
    /\ pc = [w \in Workers |-> "idle"]
    /\ call = [w \in Workers |-> NoCall]
    /\ ret = [w \in Workers |-> NoReturn]
    /\ written = [k \in Keys |-> IF k \in LoginStates THEN CacheEntry(TRUE, StateTTL)
                                                      ELSE NoEntry]
    /\ hits = [k \in Keys |-> 0]
    /\ flow = [w \in Workers |-> NoFlow]
    /\ nextState = Cardinality(LoginStates)
    /\ nextUser = 0
    /\ issued = [s \in States |-> IF s \in LoginStates THEN StateTTL ELSE NoExpiry]
    /\ passed = [s \in States |-> 0]
    /\ create = [w \in Workers |-> NoCreate]
    /\ resp = NoResponse
    /\ applications = {}
    /\ applicationHistory = <<>>
    /\ users = {}
    /\ held = [kind \in Kinds |-> [org \in Orgs |-> 0]]
    /\ members = {}
    /\ organizations = [org \in {} |-> {}]

\* the callbacks of the logins, served by concurrent goroutines
LoginNext ==
    \/ \E w \in Workers, state \in LoginStates : GitHubOAuthCallback(w, state)
    \/ \E w \in Workers : CallbackValidateState(w)
    \/ \E w \in Workers, fail \in BOOLEAN : CallbackExchange(w, fail)
    \/ \E w \in Workers, githubID \in GitHubIDs, login \in GitHubLogins,
          fail \in BOOLEAN : CallbackGetGitHubUser(w, githubID, login, fail)
    \/ \E w \in Workers, fail \in BOOLEAN : CallbackGetByGitHubID(w, fail)
    \/ \E w \in Workers, fail \in BOOLEAN : CallbackCreateOrUpdate(w, fail)
    \/ \E w \in Workers, fail \in BOOLEAN : CallbackGenerateToken(w, fail)
    \/ \E w \in Workers : Acquire(w)
    \/ \E w \in Workers : GetAndDeleteLookup(w)
    \/ \E w \in Workers : GetAndDeleteDelete(w)

SpecLogin == LoginInit /\ [][LoginNext]_vars

\* validation requests to the REST server, with and without their fields
ValidateNext ==
    \/ \E org \in Orgs, user \in Users, name \in Names, apps \in GrantLists,
          fail \in {"none", "write"} :
          CreateServiceKey(org, user, name, apps, NoExpiry, fail)
    \/ \E token \in PresentedTokens \cup {""}, app \in AppNames \cup {""},
          org \in Orgs \cup {""}, lookupFails \in BOOLEAN :
          HandleValidateAccess(token, app, org, lookupFails)

SpecValidate == Init /\ [][ValidateNext]_vars

----------------------------------------------------------------------------
(* Properties of the access validator and the service-key store *)

IsValidateAccess == last.op = "ValidateAccess"

\* the stored key whose creation response carried the presented token
PresentedKeys == {k \in serviceKeys : rawOf[k.ID] = last.token}

Grants(k, app) ==
    {i \in 1..Len(k.Applications) : k.Applications[i].ApplicationName = app}

\* C1: a service key stored under organization A, presented by its raw token
\* together with an organization id B # A, is never validated, whatever its
\* grants and expiry.
C1_OrganizationScoping ==
    \A k \in PresentedKeys :
        (IsValidateAccess /\ last.org # k.OrganizationID) => last.valid = FALSE

C1_Witness ==
    \E k \in PresentedKeys :
        /\ IsValidateAccess /\ ~last.lookupFailed
        /\ last.org \in Orgs \ {k.OrganizationID}
        /\ Grants(k, last.app) # {}
        /\ ~(k.ExpiresAt # NoExpiry /\ k.ExpiresAt < now)
        /\ last.valid = FALSE

\* C2: a service key whose expiresAt lies in the past is never validated,
\* for every application name and whatever grants it carries.
C2_ExpiredKeyDenied ==
    \A k \in PresentedKeys :
        (IsValidateAccess /\ k.ExpiresAt # NoExpiry /\ k.ExpiresAt < now)
            => last.valid = FALSE

C2_Witness ==
    \E k \in PresentedKeys :
        /\ IsValidateAccess /\ ~last.lookupFailed
        /\ last.org = k.OrganizationID
        /\ Grants(k, last.app) # {}
        /\ k.ExpiresAt # NoExpiry /\ k.ExpiresAt < now
        /\ last.valid = FALSE

\* C3: for a key found in the declared organization and not expired, the call
\* is valid exactly when some grant's application name equals the requested
\* name exactly, the permissions returned are then such a grant's stored list
\* verbatim, and without such a grant the call is denied.
C3_GrantMatch ==
    \A k \in PresentedKeys :
        (/\ IsValidateAccess /\ ~last.lookupFailed
         /\ last.org = k.OrganizationID
         /\ ~(k.ExpiresAt # NoExpiry /\ k.ExpiresAt < now))
        => /\ last.valid <=> Grants(k, last.app) # {}
           /\ last.valid =>
                 \E i \in Grants(k, last.app) :
                     last.perms = k.Applications[i].Permissions
           /\ ~last.valid => last.perms = <<>>

C3_Witness ==
    \E k \in PresentedKeys :
        /\ IsValidateAccess /\ ~last.lookupFailed
        /\ last.org = k.OrganizationID
        /\ last.valid
        /\ last.perms = <<"write", "read", "read">>
        /\ Cardinality(Grants(k, last.app)) = 2
        /\ Grants(k, "Mail_Service") # {}

\* C4: an expired token, a token of another organization, a nonexistent token
\* and a failed store lookup all give the same returned value: valid=false,
\* no permissions and no error.
DenialCause ==
    IF ~IsValidateAccess \/ last.org = "" THEN "none"
    ELSE IF last.lookupFailed THEN "lookup failed"
    ELSE IF PresentedKeys = {} THEN "nonexistent"
    ELSE IF \A k \in PresentedKeys : k.OrganizationID # last.org THEN "other organization"
    ELSE IF \E k \in PresentedKeys : k.ExpiresAt # NoExpiry /\ k.ExpiresAt < now
         THEN "expired"
    ELSE "none"

C4_UniformDenial ==
    DenialCause # "none" =>
        /\ last.valid = FALSE
        /\ last.perms = <<>>
        /\ last.err = ""

C4_Witness ==
    /\ DenialCause = "expired"
    /\ last.valid = FALSE /\ last.perms = <<>> /\ last.err = ""
    /\ \E k \in PresentedKeys : Grants(k, last.app) # {}

\* C5: ValidateAccess makes no token lookup that is not scoped to a non-empty
\* declared organization: with an empty organization id it denies before any
\* store call, and it never uses the lookup by token alone.
C5_ScopedLookupOnly ==
    IsValidateAccess =>
        /\ \A i \in 1..Len(last.calls) :
              /\ last.calls[i].fn = "FindByTokenValueInOrg"
              /\ last.calls[i].organizationID # ""
              /\ last.calls[i].organizationID = last.org
        /\ last.org = "" => (last.calls = <<>> /\ last.valid = FALSE)

C5_Witness ==
    /\ IsValidateAccess
    /\ last.org = ""
    /\ last.calls = <<>>
    /\ \E k \in PresentedKeys : Grants(k, last.app) # {} /\ k.ExpiresAt = NoExpiry

\* C6: ValidateAccess only reads: a call changes no stored key, writes no
\* audit record and draws no id, and a positive answer rests on a key that is
\* in the store at the time of the call, with the permissions stored then.
C6_ReadOnly ==
    [][last'.op = "ValidateAccess" =>
         /\ serviceKeys' = serviceKeys
         /\ auditHistory' = auditHistory
         /\ nextKey' = nextKey
         /\ rawOf' = rawOf
         /\ now' = now
         /\ last'.valid =>
               \E k \in serviceKeys :
                  /\ k.OrganizationID = last'.org
                  /\ rawOf[k.ID] = last'.token
                  /\ \E i \in Grants(k, last'.app) :
                        last'.perms = k.Applications[i].Permissions]_vars

\* a denied call for a token whose creation response was returned and whose
\* key is no longer stored
C6_Witness ==
    /\ IsValidateAccess /\ ~last.lookupFailed
    /\ last.org # ""
    /\ PresentedKeys = {}
    /\ \E i \in 1..MaxKeys : rawOf[i] = last.token
    /\ last.valid = FALSE
    /\ auditHistory # <<>>

\* C7: the raw token is never persisted and never returned after creation:
\* every stored key holds HashToken of its raw token, only the response of a
\* successful creation carries the raw value, and every key in a response
\* body has an empty token value.
C7_TokenNeverPlain ==
    /\ \A k \in serviceKeys :
          /\ k.TokenValue = HashToken(rawOf[k.ID])
          /\ k.TokenValue \notin RawTokens
    /\ \A k \in last.keys : k.TokenValue = ""
    /\ last.token_value # "" =>
          /\ last.op = "CreateServiceKey" /\ last.status = 201
          /\ last.token_value = rawOf[last.id]

C7_Witness ==
    /\ last.op \in {"GetServiceKey", "ListServiceKeys", "UpdateServiceKey"}
    /\ last.status = 200
    /\ \E k \in last.keys : \E s \in serviceKeys :
          s.ID = k.ID /\ s.TokenValue = HashToken(rawOf[s.ID]) /\ k.TokenValue = ""

\* C8: for each Set of a key at most one GetAndDelete call returns found=true,
\* also when goroutines call it concurrently on the same key, and once one has,
\* no Get or GetAndDelete of that key returns found=true until the key is Set
\* again.
C8_GetAndDeleteSingleUse ==
    /\ [](\A k \in Keys : hits[k] <= 1)
    /\ [][\A w \in Workers :
            (ret'[w] # ret[w] /\ ret'[w].found) => hits[ret'[w].key] = 0]_vars

C8_Witness ==
    \E k \in CacheKeys :
        /\ ret["w1"] = [fn |-> "GetAndDelete", key |-> k, value |-> TRUE, found |-> TRUE]
        /\ ret["w2"] = [fn |-> "GetAndDelete", key |-> k, value |-> FALSE, found |-> FALSE]
        /\ hits[k] = 1
        /\ k \notin DOMAIN items

\* C9: a state issued by GitHubOAuth lets at most one GitHubOAuthCallback past
\* its validation, also when callbacks with the same state run concurrently; a
\* callback whose state was never issued, was already consumed or was past its
\* expiry when it arrived ends with "invalid state", and a callback that ends
\* so has exchanged no code, written no user and issued no session token.
C9_StateUsedOnce ==
    /\ \A s \in States : passed[s] <= 1
    /\ \A w \in Workers :
          /\ flow[w].unusable =>
                \/ flow[w].proc = "GitHubOAuthCallback" /\ flow[w].step = "state"
                \/ flow[w].proc = "none" /\ flow[w].result = "invalid state"
          /\ flow[w].result = "invalid state" => flow[w].effects = {}

C9_Witness ==
    /\ flow["w1"].proc = "none" /\ flow["w1"].result = "ok"
    /\ flow["w1"].effects = {"exchange", "user", "token"}
    /\ flow["w2"].proc = "none" /\ flow["w2"].result = "invalid state"
    /\ flow["w2"].state = flow["w1"].state
    /\ ~flow["w2"].unusable
    /\ passed[flow["w1"].state] = 1

\* C10: Get returns found=true exactly when the key holds an entry that was set,
\* not removed since, and whose expiry instant the current time is not past,
\* and it then returns the value that entry was set with.
C10_GetFoundUntilExpiry ==
    [][\A w \in Workers :
         (pc[w] = "body" /\ call[w].fn = "Get" /\ pc'[w] = "idle") =>
            /\ ret'[w].found <=>
                  /\ written[call[w].key] # NoEntry
                  /\ now <= written[call[w].key].ExpiresAt
            /\ ret'[w].found => ret'[w].value = written[call[w].key].Value]_vars

C10_Witness ==
    \E k \in CacheKeys :
        /\ ret["w1"] = [fn |-> "Get", key |-> k, value |-> TRUE, found |-> TRUE]
        /\ ret["w2"] = [fn |-> "Get", key |-> k, value |-> FALSE, found |-> FALSE]
        /\ written[k] # NoEntry
        /\ written[k].Value = TRUE
        /\ now > written[k].ExpiresAt

\* a key textually starts with a prefix
StartsWith(key, prefix) ==
    /\ Len(prefix) <= Len(key)
    /\ \A i \in 1..Len(prefix) : key[i] = prefix[i]

\* C11: InvalidatePrefix(prefix) removes exactly the keys that start with
\* prefix, and every other key keeps its entry, so Get returns for it what it
\* returned before.
C11_InvalidatePrefixExact ==
    [][\A w \in Workers :
         (pc[w] = "body" /\ call[w].fn = "InvalidatePrefix" /\ pc'[w] = "idle") =>
            /\ DOMAIN items' = {k \in DOMAIN items : ~StartsWith(k, call[w].key)}
            /\ \A k \in DOMAIN items' :
                  /\ items'[k] = items[k]
                  /\ CacheGet(items', k, now) = CacheGet(items, k, now)]_vars

C11_Witness ==
    /\ ret["w1"].fn = "InvalidatePrefix" /\ ret["w1"].key = <<"a", ":">>
    /\ ret["w2"] = [fn |-> "Get", key |-> <<"a", ":", "u">>, value |-> TRUE,
                    found |-> TRUE]
    /\ <<"a", ":", "u">> \notin DOMAIN items
    /\ <<"a", "b", ":", "u">> \in DOMAIN items
    /\ CacheGet(items, <<"a", "b", ":", "u">>, now).found

----------------------------------------------------------------------------
(* Properties of the creation limits *)

\* C12: a create request that finds its organization already holding the
\* limit of its kind (20 applications, 50 service keys, 50 API keys) ends
\* with the limit-exceeded error of that kind, answered with status 403 and
\* not 401, and neither calls the repository's Create nor changes the
\* stored items.
C12_LimitExceededNoWrite ==
    [][\A w \in Workers :
         (/\ create[w].step \in {"idle", "done"}
          /\ create'[w] # create[w]
          /\ create'[w].count >= Limit(create'[w].kind)) =>
            /\ create'[w].step = "done"
            /\ create'[w].err = LimitError(create'[w].kind)
            /\ create'[w].status = 403
            /\ create'[w].calls = <<"CountByOrganization">>
            /\ held' = held]_vars

C12_Witness ==
    /\ \E w \in Workers :
          /\ create[w].kind = "application" /\ create[w].org = "orgA"
          /\ create[w].count = ApplicationLimit
          /\ create[w].status = 403
    /\ \E w \in Workers :
          /\ create[w].kind = "api_key" /\ create[w].count = ApiKeyLimit
          /\ create[w].status = 403

\* C13: the number of stored items of an organization never exceeds the
\* limit of its kind, whatever the interleaving of create requests.
C13_CountWithinLimit ==
    \A kind \in Kinds, org \in Orgs : held[kind][org] <= Limit(kind)

----------------------------------------------------------------------------
(* Properties of the middlewares *)

Presented(r) == r.header[2]

\* the request behind r went to the JWT middleware with a well-formed header
Bearer(r) == r.mw = "jwt" /\ Len(r.header) = 2 /\ r.header[1] = "Bearer"

\* C14: a request with an expired, validly signed session token is let
\* through exactly if the lookup of the user named by the token succeeds;
\* it then carries a freshly issued token for that user in X-Refreshed-Token
\* and the stored user's id, external id and username in its context.  If
\* the lookup fails the answer is 401, no refreshed token is set and the
\* handler is not invoked.
C14_ExpiredTokenRefresh ==
    [][(/\ resp' # resp
        /\ Bearer(resp')
        /\ Presented(resp').form = "signed"
        /\ Presented(resp').exp <= now) =>
          LET r == resp'
              claims == Presented(r).claims
              found == {u \in users : u.ID = claims.UserID /\ u.GitHubID = claims.GitHubID}
              succeeded == r.calls = <<"GetByID">> /\ r.errs = <<>>
          IN  /\ r.next <=> succeeded
              /\ succeeded => found # {}
              /\ claims.UserID # 0 /\ claims.GitHubID # "" => r.calls = <<"GetByID">>
              /\ r.next =>
                    \E u \in found :
                       /\ r.ctx = [NoContext EXCEPT !.UserID = u.ID,
                                                    !.GitHubID = u.GitHubID,
                                                    !.Username = u.Username]
                       /\ r.refreshed.form = "signed"
                       /\ r.refreshed.claims = [UserID |-> u.ID, GitHubID |-> u.GitHubID,
                                                Username |-> u.Username]
                       /\ r.refreshed.exp > now
              /\ ~r.next => r.status = 401 /\ r.refreshed = NoToken]_vars

\* a refreshed request whose token carries an older username than the store,
\* and a rejected one whose user record is gone
C14_Witness ==
    /\ Bearer(resp) /\ Presented(resp).form = "signed" /\ Presented(resp).exp = 0
    /\ resp.next /\ resp.refreshed # NoToken
    /\ resp.ctx.Username = "octocat" /\ Presented(resp).claims.Username = "octo"

\* C29: the refresh has no age limit.  A validly signed, expired session
\* token that carries a user id and an external id is exchanged for a fresh
\* one whenever the user's record is read, however long ago it expired; the
\* fresh token is again validly signed, carries both ids and expires a token
\* lifetime after the request, so it can be exchanged in its turn.  Only a
\* missing user record (or a failed read of it) ends the chain.
C29_RefreshWithoutAgeLimit ==
    [][(/\ resp' # resp
        /\ Bearer(resp')
        /\ Presented(resp').form = "signed"
        /\ Presented(resp').exp <= now
        /\ Presented(resp').claims.UserID # 0
        /\ Presented(resp').claims.GitHubID # "") =>
          LET r == resp'
              claims == Presented(r).claims
              found == {u \in users : u.ID = claims.UserID /\ u.GitHubID = claims.GitHubID}
          IN  /\ (found # {} /\ ~r.failed) =>
                    /\ r.next
                    /\ \E u \in found :
                          r.refreshed = GenerateToken(u.ID, u.GitHubID, u.Username, now)
                    /\ r.refreshed.form = "signed"
                    /\ r.refreshed.claims.UserID # 0
                    /\ r.refreshed.claims.GitHubID # ""
                    /\ r.refreshed.exp = now + JWTExpiration
              /\ (found = {} \/ r.failed) => ~r.next /\ r.refreshed = NoToken]_vars

\* a token that was itself obtained by a refresh is exchanged MaxDays token
\* lifetimes after the first token of the chain expired
C29_Witness ==
    /\ Bearer(resp) /\ Presented(resp).form = "signed"
    /\ Presented(resp).claims.Username = "octocat"
    /\ Presented(resp).exp = JWTExpiration
    /\ now >= MaxDays * JWTExpiration
    /\ resp.next /\ resp.refreshed = GenerateToken(1, "gh1", "octocat", now)

\* C30: an OPTIONS request served by the JWT middleware, alone or followed
\* by the organization-membership middleware, is handed to the handler
\* whatever its Authorization and x-org-id headers are: no token is
\* validated or refreshed, no user or membership is read, the membership
\* cache is neither read nor written, and the context carries no user and no
\* organization.  The API-key middleware treats an OPTIONS request as any
\* other: it is handed on exactly if it carries "Bearer <key>" and the key
\* is found and not expired, and it is answered 401 otherwise.
C30_PreflightBypass ==
    [][/\ (resp' # resp /\ resp'.method = "OPTIONS" /\ resp'.mw \in {"jwt", "membership"}) =>
            /\ resp'.next
            /\ resp'.status = 0
            /\ resp'.ctx = NoContext
            /\ resp'.refreshed = NoToken
            /\ resp'.calls = <<>> /\ resp'.errs = <<>>
            /\ ~resp'.hit /\ ~resp'.cached
            /\ items' = items
       /\ (resp' # resp /\ resp'.method = "OPTIONS" /\ resp'.mw = "apikey") =>
            LET r == resp'
                presented == Len(r.header) = 2 /\ r.header[1] = "Bearer"
            IN  /\ r.next <=> /\ presented
                              /\ r.lookup.err = ""
                              /\ ~IsExpired(r.lookup, now)
                /\ ~r.next => r.status = 401
                /\ r.calls = IF presented THEN <<"FindByTokenValue">> ELSE <<>>]_vars

\* an OPTIONS request without Authorization and x-org-id headers that got
\* through both middlewares of the organization group
C30_Witness ==
    /\ resp.method = "OPTIONS" /\ resp.mw = "membership"
    /\ resp.header = <<>> /\ resp.org = <<>>
    /\ resp.next /\ resp.ctx = NoContext

\* C15: a request to the JWT middleware whose Authorization header is
\* missing or is not "Bearer <token>", or whose token is malformed or signed
\* with another key, is answered 401: no user is looked up, no token is
\* refreshed and the handler is not invoked.
C15_BadCredentialsRejected ==
    [][(/\ resp' # resp
        /\ resp'.mw = "jwt"
        /\ \/ ~Bearer(resp')
           \/ Presented(resp').form \in {"malformed", "forged"}) =>
          /\ resp'.status = 401
          /\ ~resp'.next
          /\ resp'.calls = <<>>
          /\ resp'.refreshed = NoToken
          /\ resp'.ctx = NoContext]_vars

C15_Witness ==
    /\ resp.mw = "jwt" /\ resp.status = 401
    /\ Len(resp.header) = 2 /\ resp.header[1] = "Bearer"
    /\ Presented(resp).form = "forged" /\ Presented(resp).exp = 0
    /\ Presented(resp).claims.UserID = StoredUser.ID

\* C16: on the API-key path the request is handed on only when the header is
\* "Bearer <token>" and the store returns a key that has not expired; a
\* missing or malformed header, an unknown token, a failed lookup and an
\* expired key all end in 401 over HTTP and Unauthenticated over gRPC.
C16_ApiKeyUniformRejection ==
    [][(resp' # resp /\ resp'.mw \in {"apikey", "interceptor"}) =>
          LET r == resp'
              accepted == /\ Len(r.header) = 2 /\ r.header[1] = "Bearer"
                          /\ r.calls = <<"FindByTokenValue">>
                          /\ r.lookup.err = ""
                          /\ \/ r.lookup.ExpiresAt = NoExpiry
                             \/ r.lookup.ExpiresAt >= now
          IN  /\ r.next <=> accepted
              /\ ~r.next /\ r.mw = "apikey" => r.status = 401
              /\ ~r.next /\ r.mw = "interceptor" => r.code = "Unauthenticated"]_vars

\* a failed store lookup answered 401
C16_Witness ==
    /\ resp.mw = "apikey" /\ resp.status = 401
    /\ resp.calls = <<"FindByTokenValue">> /\ resp.lookup.err = "failed"

\* the store's answer to "is userID a member of orgID"
StoreMember(orgID, userID) ==
    \/ <<orgID, userID>> \in members
    \/ orgID \in DOMAIN organizations /\ userID \in organizations[orgID]

\* C17: on an organization route the handler runs only for an authenticated
\* user who is a member of the organization named by x-org-id, by the cached
\* answer if the cache has one and else by the store, whose answer is then
\* cached for the TTL; without an org id, without a user id in the context
\* and for a non-member the answer is 401.
C17_MembershipGate ==
    /\ [] \A orgID \in GateOrgs, readFails \in BOOLEAN, getFails \in BOOLEAN :
          LET out == OrganizationMembershipMiddleware("GET", orgID, NoContext, items, now,
                        members, organizations, readFails, getFails)
          IN  out.status = 401 /\ ~out.next /\ out.calls = <<>>
    /\ [][(resp' # resp /\ resp'.mw = "membership") =>
            LET r == resp'
                userID == r.ctx.UserID
                key == r.org \o <<":">> \o IDText(userID)
                got == CacheGet(items, key, now)
                answered == ~got.found /\ ~r.failed
            IN  /\ userID # 0
                /\ r.org = <<>> => r.status = 401 /\ ~r.next /\ items' = items
                /\ r.org # <<>> =>
                     /\ r.hit = got.found
                     /\ got.found => /\ r.next = got.value
                                     /\ items' = items
                                     /\ r.calls \in {<<>>, <<"GetByID">>}
                     /\ answered =>
                           /\ r.next = StoreMember(r.org, userID)
                           /\ items' = Store(items, key,
                                  CacheEntry(StoreMember(r.org, userID), now + MembershipTTL))
                     /\ r.next => r.ctx.OrganizationID = r.org
                     /\ ~r.next /\ (got.found \/ answered) => r.status = 401]_vars

\* a member by the store, let through on a miss, and the answer cached
C17_Witness ==
    /\ resp.mw = "membership" /\ resp.next /\ resp.cached
    /\ resp.org = <<"a">> /\ <<"a">> \o <<":", "u">> \in DOMAIN items
    /\ <<(<<"a">>), StoredUser.ID>> \in members

\* C18: the membership cache is written only with an answer the store gave
\* successfully: a request during which a store call of the membership
\* lookup failed leaves the cache as it was.
C18_CacheWrittenOnSuccess ==
    [][(resp' # resp /\ resp'.mw = "membership" /\ resp'.failed) =>
          /\ ~resp'.cached
          /\ items' = items]_vars

\* C19: a step that adds or removes a member of an organization leaves no
\* cached membership answer of that organization to be served.
C19_ChangeInvalidates ==
    [][\A orgID \in GateOrgs :
         (\E userID \in {StoredUser.ID} :
             (<<orgID, userID>> \in members') # (<<orgID, userID>> \in members)) =>
            \A key \in DOMAIN items' :
               StartsWith(key, orgID \o <<":">>) => ~CacheGet(items', key, now).found]_vars

----------------------------------------------------------------------------
(* Properties of the audit history *)

\* one step on a container: nothing happens to entities and audit records,
\* or one entity is created, replaced or deleted and exactly one audit
\* record with that action and that entity's id is appended
AtomicWrite(entities, after, audits, auditsAfter) ==
    \/ after = entities /\ auditsAfter = audits
    \/ /\ Len(auditsAfter) = Len(audits) + 1
       /\ SubSeq(auditsAfter, 1, Len(audits)) = audits
       /\ LET rec == auditsAfter[Len(auditsAfter)]
              same(e) == e.ID = rec.EntityID /\ e.OrganizationID = rec.OrganizationID
              old == {e \in entities : same(e)}
              new == {e \in after : same(e)}
          IN  /\ {e \in after : ~same(e)} = {e \in entities : ~same(e)}
              /\ rec.Action = "created" => old = {} /\ Cardinality(new) = 1
              /\ rec.Action = "updated" => Cardinality(old) = 1 /\ Cardinality(new) = 1
              /\ rec.Action = "deleted" => Cardinality(old) = 1 /\ new = {}
              /\ rec.Action \in {"created", "updated", "deleted"}

Mutations == {"CreateServiceKey", "UpdateServiceKey", "DeleteServiceKey",
              "CreateApplication", "UpdateApplication", "DeleteApplication"}

----------------------------------------------------------------------------
(* Properties of organizations and their members *)

\* C21: a CreateOrganization request writes the organization together with
\* the member record of its creator or writes neither: a step that adds an
\* organization adds the creator's member record with it and answers 201,
\* and a request that fails, also in the batch, leaves organizations and
\* member records as they were.
C21_OrganizationWithCreator ==
    [][/\ \A orgID \in DOMAIN organizations' \ DOMAIN organizations :
             /\ resp'.mw = "CreateOrganization" /\ resp'.status = 201
             /\ resp'.org = orgID
             /\ resp'.ctx.UserID # 0
             /\ <<orgID, resp'.ctx.UserID>> \in members'
       /\ (resp' # resp /\ resp'.mw = "CreateOrganization") =>
             \/ /\ resp'.status = 201
                /\ resp'.org \in DOMAIN organizations' \ DOMAIN organizations
                /\ members' = members \cup {<<resp'.org, resp'.ctx.UserID>>}
             \/ /\ resp'.status # 201
                /\ organizations' = organizations
                /\ members' = members]_vars

\* an organization created with its creator's member record, after a request
\* whose batch failed
C21_Witness ==
    /\ resp.mw = "CreateOrganization" /\ resp.status = 201
    /\ resp.org = OrgSeq[1]
    /\ OrgSeq[1] \in DOMAIN organizations
    /\ <<OrgSeq[1], StoredUser.ID>> \in members

\* C25: the membership check reads the member record of (organization, user)
\* first and reads the organization's legacy member list only when that
\* record is absent: it answers true when the record exists, else what the
\* legacy list says, and when reading the record failed otherwise it returns
\* the error without reading the legacy list.
C25_JoinRecordFirst ==
    [][(resp' # resp /\ resp'.mw = "IsMember") =>
         LET r == resp'
             userID == r.ctx.UserID
             join == <<r.org, userID>> \in members
             legacy == r.org \in DOMAIN organizations /\ userID \in organizations[r.org]
             readFailed == "ReadItem" \in {r.errs[i] : i \in 1..Len(r.errs)}
             getFailed == "Get" \in {r.errs[i] : i \in 1..Len(r.errs)}
         IN  /\ Len(r.calls) >= 1 /\ r.calls[1] = "ReadItem"
             /\ readFailed => r.calls = <<"ReadItem">> /\ r.status = 500 /\ ~r.next
             /\ (~readFailed /\ join) => r.calls = <<"ReadItem">> /\ r.next
             /\ (~readFailed /\ ~join) => r.calls = <<"ReadItem", "Get">>
             /\ (~readFailed /\ ~join /\ ~getFailed) => r.next = legacy
             /\ ~readFailed => r.status = 0
             /\ UNCHANGED <<members, organizations>>]_vars

\* no member record, and membership found in the legacy list
C25_Witness ==
    /\ resp.mw = "IsMember" /\ resp.next
    /\ resp.calls = <<"ReadItem", "Get">>
    /\ <<resp.org, resp.ctx.UserID>> \notin members
    /\ resp.org \in DOMAIN organizations
    /\ resp.ctx.UserID \in organizations[resp.org]

----------------------------------------------------------------------------
(* Properties of the users container *)

\* C22: the users container never holds two user records with the same
\* external provider id, whatever logins have been served and however
\* their callbacks interleave.
C22_OneUserPerGitHubID ==
    \A u1 \in users, u2 \in users : u1.GitHubID = u2.GitHubID => u1 = u2

----------------------------------------------------------------------------
(* Properties of the organization partitions *)

ScopedReads == {"GetServiceKey", "ListServiceKeys"}
ScopedWrites == {"UpdateServiceKey", "DeleteServiceKey"}

----------------------------------------------------------------------------
(* Properties of the validation endpoint *)

----------------------------------------------------------------------------
(* Properties of the token digest *)

\* C26: as long as a service key is stored, its stored token value is the
\* digest of the raw token its creation returned, through every get, list
\* and update; so ValidateAccess with that raw token, the key's organization
\* and an application name is valid exactly when the key is not expired and
\* grants that application, provided the lookup does not fail.
C26_RawTokenValidates ==
    /\ \A k \in serviceKeys :
          /\ rawOf[k.ID] \in RawTokens
          /\ k.TokenValue = HashToken(rawOf[k.ID])
          /\ \A app \in AppNames :
                ValidateAccess(serviceKeys, now,
                               ValidateAccessInput(rawOf[k.ID], app, k.OrganizationID),
                               FALSE).Valid
                  = (~IsExpired(k, now) /\ HasAccessToApplication(k, app) # 0)
    /\ (last.op = "ValidateAccess" /\ ~last.lookupFailed) =>
          \A k \in serviceKeys :
             (/\ last.token = rawOf[k.ID] /\ last.org = k.OrganizationID
              /\ ~IsExpired(k, now) /\ HasAccessToApplication(k, last.app) # 0)
                => last.valid

\* the raw token of a key validated after the key was updated
C26_Witness ==
    /\ last.op = "ValidateAccess" /\ last.valid
    /\ Len(auditHistory) = 2 /\ auditHistory[2].Action = "updated"
    /\ \E k \in serviceKeys : k.ID = auditHistory[2].EntityID /\ last.token = rawOf[k.ID]

----------------------------------------------------------------------------
(* Properties of updates *)

============================================================================
